---- MODULE Spec2Model ----
(***************************************************************************)
(* A model of deixis/governor: the workflow engine (Engine.Check and       *)
(* Engine.Audit with their step runners and output adapters) and the       *)
(* workspace-bound command runner (Runner.Run, resolveDir, limitWriter).    *)
(*                                                                         *)
(* External tools are the environment: every call of ResolveTool and of    *)
(* CommandRunner.Run made by the engine draws its outcome from a small     *)
(* set, and the call is logged in `calls`.                                 *)
(***************************************************************************)
EXTENDS Integers, Sequences, FiniteSets, TLC

\* ------------------------------------------------------------------ bounds
MaxSteps == 2
MaxEvents == 2
MaxIssues == 1
MaxFiles == 1

\* elements of a cwd, bytes of the output cap, bytes of one Write, of one stream
\* of a subprocess, and of all the Writes to a limitWriter on its own
MaxPath == 2

MaxLimit == 2

MaxChunk == 2

MaxStream == 2

MaxWritten == 4

\* ----------------------------------------------------------------- helpers
SeqsUpTo(S, n) == UNION {[1..k -> S] : k \in 0..n}

Range(s) == {s[k] : k \in 1..Len(s)}

\* every sequence that lists the elements of the finite set S exactly once
Orderings(S) == {s \in [1..Cardinality(S) -> S] : Range(s) = S}

None == [none |-> TRUE]

VARIABLES
    config,     \* Engine.Config: [CheckSteps, AuditSteps] as configured (may be empty)
    op,         \* the pipeline being executed: "none", "check" or "audit"
    pc,         \* position in it: "idle", "loop", "done"
    fix,        \* Check's fix argument
    idx,        \* 1-based index of the next step of the loop
    results,    \* the []StepResult / []AuditStepResult being filled
    failedIdx,  \* Check's failedIdx (zero-based, -1, or -2 in the returned result)
    rr,         \* the *report.RunResult under construction
    calls,      \* log of ResolveTool / Runner.Run calls: [at, fn, tool], at = 0 for the fix phase
    outcomes,   \* per executed step, what the environment answered
    fixEnv,     \* what the environment answered in the fix phase
    ret,        \* the value returned by the finished Check / Audit
    ctx,        \* the caller's context: [done, at], at = steps finished when it was cancelled
    runner,     \* the Runner: [Workspace, MaxOutput]
    rpc,        \* position of Runner.Run: "idle", "running", "returned"
    argv,       \* Run's argv
    cwd,        \* Run's cwd
    cmd,        \* the exec.Cmd: [Dir, Stdout, Stderr], the streams being limitWriters
    spawned,    \* whether a subprocess was started
    child,      \* the subprocess: [state, code], state "none", "running", "exited" or "killed"
    stream,     \* every byte the subprocess wrote so far: [Stdout, Stderr]
    wrote,      \* the last Write: [len, n, err]
    runRet,     \* the value returned by Run: [result, err]
    lw,         \* a limitWriter on its own: [buf, limit]
    written,    \* every byte passed to lw.Write so far
    lru,        \* the LRUStore: [cap, order, items], order from head (most recent) to tail
    disk,       \* the DiskStore: [dir, files], files[id] the JSON document of <dir>/<id>.json
    saved,      \* history: per run id, [result, ok, stored]: the record of the last Save call,
                \* whether it returned nil, and the record of the last Save that returned nil
    sop,        \* the last store operation: [op, id, hit]
    sret,       \* what it returned: [result, err]
    sym,        \* the symbol argument of inspect
    split,      \* splitSymbol(sym): [pkg, name]
    symResult,  \* the RunResult argument of BySymbol
    symOut,     \* the diagnostics BySymbol returned
    rpEngine,   \* the Engine of ResolvePackages: [Workspace, RepoRoot]
    packages,   \* its argument
    rpIdx,      \* 1-based index of the next package of its loop
    rpResolved, \* the slice being filled
    rpRet,      \* its return: [returned, value]
    accessed,   \* history: the ids saved or loaded so far, most recent first
    gopls,      \* handler.gopls: TRUE when a goplsProxy is attached, FALSE when nil
    tools,      \* the tool names registered on the server
    forwarded,  \* the calls the proxy session has sent upstream, oldest first
    gcall,      \* the last call of a proxied tool: [tool, raw, before, up]
    gret,       \* what its handler returned: [result, err]
    hRunner,    \* handler.runner: [Workspace, Timeout, MaxOutput]
    hEngine,    \* handler.engine: [Config, Workspace, RepoRoot]
    neg,        \* the last root negotiation: [called, listed, loaded, runner, engine]
    tcall,      \* the last call of gov_check, gov_audit or gov_inspect: [tool, run_id, symbol]
    tret,       \* the CallToolResult it returned, and the run it names: [isError, text, run]
    cl,         \* an LRUStore shared by goroutines: [cap, head, tail, items, nodes]
    mu,         \* LRUStore.mu: the goroutine holding it, "" when it is free
    backing,    \* the result its backing store holds of each id, 0 for none
    gpc,        \* each goroutine's position in Save or Load
    gop,        \* each goroutine's call: [op, id, result, second, missed, raced, promoted]
    transport,  \* "stdio" or "http": how the one server is served
    sess,       \* each client session's position: none, connected, ready
    hlog,       \* what has touched the handler's engine and runner, in order
    tdata,      \* the lines of test-driver output handed to parseTestOutput
    tsum        \* the TestSummary it returned, None before

engineVars == <<config, op, pc, fix, idx, results, failedIdx, rr, calls, outcomes, fixEnv, ret, ctx>>

runnerVars == <<runner, rpc, argv, cwd, cmd, spawned, child, stream, wrote, runRet>>

writerVars == <<lw, written>>

storeVars == <<lru, disk, saved, sop, sret, accessed>>

symbolVars == <<sym, split, symResult, symOut>>

adapterVars == <<tdata, tsum>>

reportVars == <<storeVars, symbolVars, adapterVars>>

resolveVars == <<rpEngine, packages, rpIdx, rpResolved, rpRet>>

goplsVars == <<gopls, tools, forwarded, gcall, gret>>

rootsVars == <<hRunner, hEngine, neg, transport, sess, hlog>>

serverVars == <<tcall, tret>>

sharedVars == <<cl, mu, backing, gpc, gop>>

miscVars == <<resolveVars, goplsVars, rootsVars, serverVars, sharedVars>>

otherThanResolve == <<goplsVars, rootsVars, serverVars, sharedVars>>

otherThanGopls == <<resolveVars, rootsVars, serverVars, sharedVars>>

otherThanRoots == <<resolveVars, goplsVars, serverVars, sharedVars>>

otherThanServer == <<resolveVars, goplsVars, rootsVars, sharedVars>>

otherThanShared == <<resolveVars, goplsVars, rootsVars, serverVars>>

vars == <<engineVars, runnerVars, writerVars, reportVars, miscVars>>

\* ------------------------------------------------------------------ config
DefaultCheckSteps == <<"test", "lint", "staticcheck">>

DefaultAuditSteps == <<"coverage", "complexity", "deadcode", "dupl", "vulncheck">>

CheckSteps(c) == IF Len(c.CheckSteps) > 0 THEN c.CheckSteps ELSE DefaultCheckSteps

AuditSteps(c) == IF Len(c.AuditSteps) > 0 THEN c.AuditSteps ELSE DefaultAuditSteps

CheckStepNames == {"test", "lint", "staticcheck", "bogus"}

AuditStepNames == {"coverage", "complexity", "deadcode", "dupl", "vulncheck", "bogus"}

\* ------------------------------------------------------------- environment
\* What CommandRunner.Run can answer: a transport error, or a Result.
RunErr == [err |-> TRUE, ExitCode |-> 0, Stdout |-> <<>>]

RunResults(stdouts) == {[err |-> FALSE, ExitCode |-> c, Stdout |-> s] : c \in {0, 1}, s \in stdouts}

RunOutcomes(stdouts) == {RunErr} \cup RunResults(stdouts)

\* error values
ErrToolUnavailable(name) == [unavailable |-> TRUE, msg |-> <<name, " is required but not installed.">>]

Errorf(prefix) == [unavailable |-> FALSE, msg |-> <<prefix, "transport error">>]

Call(at, fn, tool) == [at |-> at, fn |-> fn, tool |-> tool]

\* ------------------------------------------------------------- RunResult
\* uuid.New().String(): one pipeline invocation is modelled per behaviour
RunID == "run-1"

NewRunResultAlwaysCheck(id, kind) ==
    [ID |-> id, Kind |-> "check", AutoFixes |-> 0, FormatIssues |-> <<>>,
     BuildErrors |-> <<>>, TestFailures |-> <<>>, LintIssues |-> <<>>, StaticIssues |-> <<>>,
     Coverage |-> <<>>, Complexity |-> <<>>, DeadFuncs |-> <<>>, Duplicates |-> <<>>, Vulns |-> <<>>]

NewRunResult(id, kind) ==
    [ID |-> id, Kind |-> kind, AutoFixes |-> 0, FormatIssues |-> <<>>,
     BuildErrors |-> <<>>, TestFailures |-> <<>>, LintIssues |-> <<>>, StaticIssues |-> <<>>,
     Coverage |-> <<>>, Complexity |-> <<>>, DeadFuncs |-> <<>>, Duplicates |-> <<>>, Vulns |-> <<>>]

\* ------------------------------------------------------------------ strings
\* A string is a sequence of tokens; "/" is the path separator token. A tool's
\* output text is a sequence of lines (each output event carries whole lines).
IndexesOf(s, t) == {k \in 1..Len(s) : s[k] = t}

LastIndex(s, t) == IF IndexesOf(s, t) = {} THEN 0 ELSE CHOOSE k \in IndexesOf(s, t) : \A j \in IndexesOf(s, t) : j <= k

derivePackageFromFile(file) ==
    IF file = <<>> THEN <<>>
    ELSE IF LastIndex(file, "/") = 0 THEN <<".">>
    ELSE SubSeq(file, 1, LastIndex(file, "/") - 1)

FrameworkMarkers == {"=== RUN", "--- FAIL"}

\* first line that is not blank and does not start with a framework marker
RECURSIVE FirstLine(_)
FirstLine(lines) ==
    IF lines = <<>> THEN ""
    ELSE IF Head(lines) # "" /\ Head(lines) \notin FrameworkMarkers THEN Head(lines)
    ELSE FirstLine(Tail(lines))

\* strings.TrimRight(s, "\n"): drop the trailing empty lines
RECURSIVE TrimRightNewlines(_)
TrimRightNewlines(lines) ==
    IF lines = <<>> THEN <<>>
    ELSE IF lines[Len(lines)] = "" THEN TrimRightNewlines(SubSeq(lines, 1, Len(lines) - 1))
    ELSE lines

\* -------------------------------------------------------- test adapter
\* One line of `go test -json`: valid = FALSE is a blank or malformed line.
TestEvent(action, pkg, test, ip, out) ==
    [valid |-> TRUE, Action |-> action, Package |-> pkg, Test |-> test, ImportPath |-> ip, Output |-> out]

MalformedLine == [valid |-> FALSE, Action |-> "", Package |-> <<>>, Test |-> <<>>, ImportPath |-> <<>>, Output |-> <<>>]

TestEvents ==
    { TestEvent("pass", <<"p">>, <<"TA">>, <<>>, <<>>),
      TestEvent("fail", <<"p">>, <<"TA">>, <<>>, <<>>),
      TestEvent("fail", <<"p">>, <<"TB">>, <<>>, <<>>),
      TestEvent("fail", <<"p">>, <<>>, <<>>, <<>>),
      TestEvent("fail", <<>>, <<>>, <<>>, <<>>),
      TestEvent("skip", <<"p">>, <<"TA">>, <<>>, <<>>),
      TestEvent("output", <<"p">>, <<"TA">>, <<>>, <<"=== RUN", "expected 4, got 5">>),
      TestEvent("build-output", <<>>, <<>>, <<"q">>, <<"undefined: x", "">>),
      TestEvent("build-fail", <<>>, <<>>, <<"q">>, <<>>),
      MalformedLine }

TestStdouts == SeqsUpTo(TestEvents, MaxEvents)

EmptyMap == [k \in {} |-> <<>>]

MapGet(m, k) == IF k \in DOMAIN m THEN m[k] ELSE <<>>

\* outputs[key].WriteString(out), creating the builder when absent
MapWrite(m, k, out) == [x \in DOMAIN m \cup {k} |-> IF x = k THEN MapGet(m, k) \o out ELSE m[x]]

NewTestSummary ==
    [Status |-> "PASS", Total |-> 0, Passed |-> 0, Failed |-> 0, Skipped |-> 0,
     outputs |-> EmptyMap, failedTests |-> {}, buildOutputs |-> EmptyMap, failedBuilds |-> {}]

BuildKey(ev) == IF ev.ImportPath = <<>> THEN ev.Package ELSE ev.ImportPath

\* the body of parseTestOutput's loop for one line
parseTestEvent(s, ev) ==
    LET key == <<ev.Package, ev.Test>>
        ip == BuildKey(ev)
    IN  IF ~ev.valid THEN s
        ELSE CASE ev.Action = "output" ->
                    IF ev.Test # <<>> THEN [s EXCEPT !.outputs = MapWrite(@, key, ev.Output)] ELSE s
               [] ev.Action = "pass" ->
                    IF ev.Test # <<>> THEN [s EXCEPT !.Total = @ + 1, !.Passed = @ + 1] ELSE s
               [] ev.Action = "fail" ->
                    IF ev.Test # <<>>
                    THEN [s EXCEPT !.Total = @ + 1, !.Failed = @ + 1, !.Status = "FAIL",
                                   !.failedTests = @ \cup {key}]
                    ELSE IF ev.Package # <<>> THEN [s EXCEPT !.Status = "FAIL"] ELSE s
               [] ev.Action = "skip" ->
                    IF ev.Test # <<>> THEN [s EXCEPT !.Total = @ + 1, !.Skipped = @ + 1] ELSE s
               [] ev.Action = "build-output" ->
                    IF ip # <<>> THEN [s EXCEPT !.buildOutputs = MapWrite(@, ip, ev.Output)] ELSE s
               [] ev.Action = "build-fail" ->
                    IF ip # <<>>
                    THEN [s EXCEPT !.failedBuilds = @ \cup {ip}, !.Status = "FAIL"]
                    ELSE [s EXCEPT !.Status = "FAIL"]
               [] OTHER -> s

RECURSIVE parseTestLines(_, _)
parseTestLines(s, data) ==
    IF data = <<>> THEN s ELSE parseTestLines(parseTestEvent(s, Head(data)), Tail(data))

\* parseTestOutput ranges over two Go maps to build Errors and BuildErrors: the
\* iteration order of a map is unspecified, so every order is a possible result.
parseTestOutput(data) ==
    LET s == parseTestLines(NewTestSummary, data)
    IN  { [Status |-> s.Status, Total |-> s.Total, Passed |-> s.Passed, Failed |-> s.Failed,
           Skipped |-> s.Skipped,
           Errors |-> [k \in 1..Len(eo) |->
                          [Test |-> eo[k][2], Package |-> eo[k][1], Output |-> MapGet(s.outputs, eo[k])]],
           BuildErrors |-> [k \in 1..Len(bo) |->
                          [ImportPath |-> bo[k], Output |-> TrimRightNewlines(MapGet(s.buildOutputs, bo[k]))]]]
          : eo \in Orderings(s.failedTests), bo \in Orderings(s.failedBuilds) }

\* TestSummary.String(): its status line and counts
TestSummaryString(s) == <<"Status: ", s.Status, s.Failed, s.Total>>

\* -------------------------------------------------------- lint adapter
LintJSONIssues ==
    { [FromLinter |-> "errcheck", Text |-> "unchecked", Filename |-> <<"a", "/", "x.go">>, Line |-> 1, Column |-> 1],
      [FromLinter |-> "govet", Text |-> "shadow", Filename |-> <<"y.go">>, Line |-> 2, Column |-> 1] }

\* stdout of golangci-lint: a JSON document (valid) or anything else
LintStdouts == {[valid |-> FALSE, Issues |-> <<>>]} \cup {[valid |-> TRUE, Issues |-> s] : s \in SeqsUpTo(LintJSONIssues, MaxIssues)}

parseLintOutput(stdout) ==
    IF ~stdout.valid THEN [Issues |-> <<>>]
    ELSE [Issues |-> [k \in 1..Len(stdout.Issues) |->
                        [File |-> stdout.Issues[k].Filename, Line |-> stdout.Issues[k].Line,
                         Column |-> stdout.Issues[k].Column, Linter |-> stdout.Issues[k].FromLinter,
                         Message |-> stdout.Issues[k].Text]]]

IssuesSummaryString(issues) == <<"Status: ", Len(issues), " issues found">>

\* -------------------------------------------------- staticcheck adapter
StaticEvent(code, file) ==
    [valid |-> TRUE, Code |-> code, Severity |-> "error", Message |-> "m", File |-> file,
     Line |-> 3, Column |-> 1, EndLine |-> 3, EndCol |-> 9]

StaticLines ==
    { [valid |-> FALSE, Code |-> "", Severity |-> "", Message |-> "", File |-> <<>>,
       Line |-> 0, Column |-> 0, EndLine |-> 0, EndCol |-> 0],
      StaticEvent("", <<"y.go">>),
      StaticEvent("SA1000", <<"a", "/", "x.go">>),
      StaticEvent("SA4006", <<"y.go">>) }

StaticStdouts == SeqsUpTo(StaticLines, MaxIssues)

RECURSIVE parseStaticcheckLines(_)
parseStaticcheckLines(data) ==
    IF data = <<>> THEN <<>>
    ELSE LET ev == Head(data)
         IN  IF ~ev.valid \/ ev.Code = "" THEN parseStaticcheckLines(Tail(data))
             ELSE <<[Package |-> derivePackageFromFile(ev.File), File |-> ev.File, Line |-> ev.Line,
                     Col |-> ev.Column, EndLine |-> ev.EndLine, EndCol |-> ev.EndCol,
                     Code |-> ev.Code, Severity |-> ev.Severity, Message |-> ev.Message]>>
                  \o parseStaticcheckLines(Tail(data))

parseStaticcheckOutput(data) == [Issues |-> parseStaticcheckLines(data)]

\* ---------------------------------------------------------- fix phase
\* stdout of `gofumpt -l .`: lines, "" a blank line
GofumptLines == {"", "f.go"}

GofumptStdouts == SeqsUpTo(GofumptLines, MaxFiles)

RECURSIVE formatIssuesOf(_)
formatIssuesOf(lines) ==
    IF lines = <<>> THEN <<>>
    ELSE IF Head(lines) = "" THEN formatIssuesOf(Tail(lines))
    ELSE <<[Package |-> <<>>, File |-> Head(lines), Message |-> <<"file not formatted: ", Head(lines)>>]>>
         \o formatIssuesOf(Tail(lines))

\* listed: the list-mode run of the formatter returned a Result naming a file
FixOut(n, issues, cs, missing, failed) ==
    [n |-> n, issues |-> issues, calls |-> cs, missing |-> missing, failed |-> failed, listed |-> FALSE]

\* runGofumptFix: every outcome the environment allows; it always returns 0
runGofumptFix ==
    LET r1 == Call(0, "resolve", "gofumpt")
        w  == Call(0, "run", "gofumpt -w")
        l  == Call(0, "run", "gofumpt -l")
    IN  { FixOut(0, <<>>, {r1}, TRUE, FALSE),            \* argv == nil
          FixOut(0, <<>>, {r1, w}, FALSE, TRUE),         \* err != nil || ExitCode != 0
          FixOut(0, <<>>, {r1, w}, TRUE, FALSE),         \* lArgv == nil
          FixOut(0, <<>>, {r1, w, l}, FALSE, TRUE),      \* second Run failed
          FixOut(0, <<>>, {r1, w, l}, FALSE, FALSE) }

\* runLintFix: always returns 0
runLintFix ==
    LET r1 == Call(0, "resolve", "golangci-lint")
        x  == Call(0, "run", "golangci-lint run --fix")
    IN  { FixOut(0, <<>>, {r1}, TRUE, FALSE),
          FixOut(0, <<>>, {r1, x}, FALSE, TRUE),
          FixOut(0, <<>>, {r1, x}, FALSE, FALSE) }

\* runGofumptCheck: the exit code of `gofumpt -l` is not looked at
runGofumptCheck ==
    LET r1 == Call(0, "resolve", "gofumpt")
        l  == Call(0, "run", "gofumpt -l")
    IN  { FixOut(0, <<>>, {r1}, TRUE, FALSE),
          FixOut(0, <<>>, {r1, l}, FALSE, TRUE) }
        \cup { [FixOut(0, formatIssuesOf(o.Stdout), {r1, l}, FALSE, o.ExitCode # 0)
                  EXCEPT !.listed = \E k \in 1..Len(o.Stdout) : o.Stdout[k] # ""]
               : o \in RunResults(GofumptStdouts) }

\* RunFixPhase(fix): the FixResult with the calls made and what went wrong
RunFixPhase(f) ==
    IF f
    THEN { FixOut(g.n + x.n, <<>>, g.calls \cup x.calls, g.missing \/ x.missing, g.failed \/ x.failed)
           : g \in runGofumptFix, x \in runLintFix }
    ELSE runGofumptCheck

\* -------------------------------------------------------- step runners
NoErr == [unavailable |-> FALSE, msg |-> <<>>]

IsErr(e) == e.msg # <<>>

\* what happened in one step: was the tool resolved, did Runner.Run return a
\* Result, with which exit code, how many findings the adapter recognised in
\* the output and whether it reported a failure
Env(resolved, launched, exit, findings, failing) ==
    [resolved |-> resolved, launched |-> launched, exit |-> exit, findings |-> findings, failing |-> failing]

StepRun(err, value, cs, env) == [err |-> err, value |-> value, calls |-> cs, env |-> env]

\* runTest: `go` is not resolved through ResolveTool
runTest(at) ==
    LET run == Call(at, "run", "go test")
    IN  { StepRun(Errorf("executing go test: "), None, {run}, Env(TRUE, FALSE, 0, 0, FALSE)) }
        \cup UNION { { StepRun(NoErr, summary, {run},
                                Env(TRUE, TRUE, o.ExitCode, Len(summary.Errors) + Len(summary.BuildErrors),
                                    summary.Status = "FAIL"))
                        : summary \in parseTestOutput(o.Stdout) }
                      : o \in RunResults(TestStdouts) }

\* a finished run of a tool: its exit code, what the adapter parsed from its
\* output, and the number of findings in it
Parsed(o, value, n) == [exit |-> o.ExitCode, value |-> value, n |-> n]

\* runs of a tool that is first resolved, then run, its output then parsed
ResolvedToolRun(at, tool, parsed) ==
    LET res == Call(at, "resolve", tool)
        run == Call(at, "run", tool)
    IN  { StepRun(ErrToolUnavailable(tool), None, {res}, Env(FALSE, FALSE, 0, 0, FALSE)),
          StepRun(Errorf(<<"executing ", tool>>), None, {res, run}, Env(TRUE, FALSE, 0, 0, FALSE)) }
        \cup { StepRun(NoErr, x.value, {res, run}, Env(TRUE, TRUE, x.exit, x.n, x.n > 0)) : x \in parsed }

runLint(at) ==
    ResolvedToolRun(at, "golangci-lint",
        { Parsed(o, parseLintOutput(o.Stdout), Len(parseLintOutput(o.Stdout).Issues))
          : o \in RunResults(LintStdouts) })

runStaticcheck(at) ==
    ResolvedToolRun(at, "staticcheck",
        { Parsed(o, parseStaticcheckOutput(o.Stdout), Len(parseStaticcheckOutput(o.Stdout).Issues))
          : o \in RunResults(StaticStdouts) })

\* A step started under a cancelled context launches nothing: exec.Cmd.Start
\* fails on a context that is done, and Runner.Run returns that error.
StartedUnder(c, r) == c.done => ~r.env.launched

\* the caller cancels the context while the loop of Check or Audit is between
\* two steps (or before the first)
Cancel ==
    /\ pc = "loop"
    /\ ~ctx.done
    /\ ctx' = [done |-> TRUE, at |-> idx - 1]
    /\ UNCHANGED <<config, op, pc, fix, idx, results, failedIdx, rr, calls, outcomes, fixEnv, ret,
                   runnerVars, writerVars, reportVars, miscVars>>

\* ---------------------------------------------------------- Engine.Check
StepResult(name, status, detail, output) ==
    [Name |-> name, Status |-> status, Detail |-> detail, Output |-> output]

\* mutant: the initial results are filled in reverse order
InitialResultsReversed(steps) ==
    [k \in 1..Len(steps) |-> StepResult(steps[Len(steps) + 1 - k], "skipped", <<>>, <<>>)]

\* results[i] = StepResult{Name: step, Status: "skipped"} for every step
InitialResults(steps) == [k \in 1..Len(steps) |-> StepResult(steps[k], "skipped", <<>>, <<>>)]

\* mutant: without fix the pipeline always ends in the format failure
FormatFailureWithoutIssues(f, r) == ~f

\* `if !fix && len(rr.FormatIssues) > 0`
FormatFailure(f, r) == ~f /\ Len(r.FormatIssues) > 0

\* mutant: the loop goes on after a failed step
CheckNeverHalts(failed) == FALSE

\* `if failedIdx >= 0 { break }`
CheckHalts(failed) == failed >= 0

\* `return &CheckResult{...}, nil`: Err is the error returned next to it
CheckResult(r, steps, failed) == [RunResult |-> r, Steps |-> steps, FailedIdx |-> failed, Err |-> ""]

\* case "test"
CheckTestResult(step, r) ==
    IF IsErr(r.err) THEN StepResult(step, "fail", <<>>, r.err.msg)
    ELSE IF r.value.Status = "FAIL" THEN StepResult(step, "fail", <<>>, TestSummaryString(r.value))
    ELSE StepResult(step, "pass", <<>>, <<>>)

CheckTestRecords(r0, r) ==
    IF ~IsErr(r.err) /\ r.value.Status = "FAIL"
    THEN [r0 EXCEPT
            !.TestFailures = @ \o [k \in 1..Len(r.value.Errors) |->
                [Package |-> r.value.Errors[k].Package, Test |-> r.value.Errors[k].Test,
                 Message |-> FirstLine(r.value.Errors[k].Output), Output |-> r.value.Errors[k].Output]],
            !.BuildErrors = @ \o [k \in 1..Len(r.value.BuildErrors) |->
                [Package |-> r.value.BuildErrors[k].ImportPath, Message |-> r.value.BuildErrors[k].Output]]]
    ELSE r0

\* mutant: a missing tool is reported like any other error
CheckToolResultNoUnavailable(step, r) ==
    IF IsErr(r.err) THEN StepResult(step, "fail", <<>>, r.err.msg)
    ELSE IF Len(r.value.Issues) > 0 THEN StepResult(step, "fail", <<>>, IssuesSummaryString(r.value.Issues))
    ELSE StepResult(step, "pass", <<>>, <<>>)

\* case "lint" and case "staticcheck": the status of a step whose tool is resolved first
CheckToolResult(step, r) ==
    IF IsErr(r.err)
    THEN IF r.err.unavailable THEN StepResult(step, "unavailable", r.err.msg, <<>>)
         ELSE StepResult(step, "fail", <<>>, r.err.msg)
    ELSE IF Len(r.value.Issues) > 0 THEN StepResult(step, "fail", <<>>, IssuesSummaryString(r.value.Issues))
    ELSE StepResult(step, "pass", <<>>, <<>>)

CheckLintRecords(r0, r) ==
    IF ~IsErr(r.err) /\ Len(r.value.Issues) > 0
    THEN [r0 EXCEPT !.LintIssues = @ \o [k \in 1..Len(r.value.Issues) |->
            [Package |-> <<>>, File |-> r.value.Issues[k].File, Line |-> r.value.Issues[k].Line,
             Col |-> r.value.Issues[k].Column, Linter |-> r.value.Issues[k].Linter,
             Message |-> r.value.Issues[k].Message]]]
    ELSE r0

CheckStaticRecords(r0, r) ==
    IF ~IsErr(r.err) /\ Len(r.value.Issues) > 0 THEN [r0 EXCEPT !.StaticIssues = r.value.Issues] ELSE r0

\* FormatFailureSymbols: one entry per test failure, then one per package of
\* the build errors, lint issues and staticcheck issues with their number; the
\* text before the dash is sym. The per-package entries come out of Go maps in
\* any order, so the entries are given as a set.
ListPackage(rec) == IF rec.Package = <<>> THEN derivePackageFromFile(rec.File) ELSE rec.Package

PackageEntries(pkgs, what) ==
    { [sym |-> p, what |-> what, n |-> Cardinality({k \in DOMAIN pkgs : pkgs[k] = p})]
      : p \in {pkgs[k] : k \in DOMAIN pkgs} }

FormatFailureSymbols(r) ==
    { [sym |-> r.TestFailures[k].Package \o <<".">> \o r.TestFailures[k].Test, what |-> "test", n |-> 1]
      : k \in DOMAIN r.TestFailures }
    \cup PackageEntries([k \in DOMAIN r.BuildErrors |-> r.BuildErrors[k].Package], "build errors")
    \cup PackageEntries([k \in DOMAIN r.LintIssues |-> ListPackage(r.LintIssues[k])], "lint issues")
    \cup PackageEntries([k \in DOMAIN r.StaticIssues |-> r.StaticIssues[k].Package], "staticcheck issues")

\* mutant: the message goes to Detail, as Audit does
CheckUnknownResultInDetail(step) == StepResult(step, "fail", <<"unknown step: ", step>>, <<>>)

\* default:
CheckUnknownResult(step) == StepResult(step, "fail", <<>>, <<"unknown step: ", step>>)

\* Check from its entry to the start of the step loop: the fix phase, then
\* either the format-failure return or the initial step results.
CheckBegin(f) ==
    /\ pc = "idle"
    /\ \E fr \in RunFixPhase(f) :
         LET r1 == [NewRunResult(RunID, "check") EXCEPT !.AutoFixes = fr.n, !.FormatIssues = fr.issues]
         IN  /\ rr' = r1
             /\ calls' = fr.calls
             /\ fixEnv' = [missing |-> fr.missing, failed |-> fr.failed, listed |-> fr.listed]
             /\ IF FormatFailure(f, r1)
                THEN /\ pc' = "done"
                     /\ results' = <<>>
                     /\ ret' = CheckResult(r1, <<>>, -2)
                ELSE /\ pc' = "loop"
                     /\ results' = InitialResults(CheckSteps(config))
                     /\ ret' = None
    /\ op' = "check"
    /\ fix' = f
    /\ idx' = 1
    /\ failedIdx' = -1
    /\ outcomes' = <<>>
    /\ UNCHANGED <<config, ctx, runnerVars, writerVars, reportVars, miscVars>>

\* the end of one iteration of Check's loop, and the return when the loop ends
CheckAdvance(res, failed, r1, r) ==
    LET f1 == IF failed THEN idx - 1 ELSE failedIdx
        rs == [results EXCEPT ![idx] = res]
    IN  /\ results' = rs
        /\ failedIdx' = f1
        /\ rr' = r1
        /\ calls' = calls \cup r.calls
        /\ outcomes' = Append(outcomes, r.env)
        /\ IF CheckHalts(f1) \/ idx = Len(CheckSteps(config))
           THEN pc' = "done" /\ idx' = idx /\ ret' = CheckResult(r1, rs, f1)
           ELSE pc' = "loop" /\ idx' = idx + 1 /\ ret' = ret
        /\ StartedUnder(ctx, r)
        /\ UNCHANGED <<config, op, fix, fixEnv, ctx, runnerVars, writerVars, reportVars, miscVars>>

AtCheckStep(name) == op = "check" /\ pc = "loop" /\ CheckSteps(config)[idx] = name

CheckTest ==
    /\ AtCheckStep("test")
    /\ \E r \in runTest(idx) :
         CheckAdvance(CheckTestResult("test", r), CheckTestResult("test", r).Status # "pass",
                      CheckTestRecords(rr, r), r)

CheckLint ==
    /\ AtCheckStep("lint")
    /\ \E r \in runLint(idx) :
         CheckAdvance(CheckToolResult("lint", r), CheckToolResult("lint", r).Status # "pass",
                      CheckLintRecords(rr, r), r)

CheckStaticcheck ==
    /\ AtCheckStep("staticcheck")
    /\ \E r \in runStaticcheck(idx) :
         CheckAdvance(CheckToolResult("staticcheck", r), CheckToolResult("staticcheck", r).Status # "pass",
                      CheckStaticRecords(rr, r), r)

CheckUnknown ==
    /\ op = "check" /\ pc = "loop"
    /\ CheckSteps(config)[idx] \notin {"test", "lint", "staticcheck"}
    /\ CheckAdvance(CheckUnknownResult(CheckSteps(config)[idx]), TRUE, rr,
                    StepRun(NoErr, None, {}, Env(FALSE, FALSE, 0, 0, FALSE)))

\* ------------------------------------------------------ audit adapters
\* One line of `go tool cover -func`: match says whether coverFuncLine matches
\* it; pct is the percentage in tenths of a percent.
CoverLine(match, file, fn, pct) == [match |-> match, file |-> file, fn |-> fn, pct |-> pct]

\* 100.0% in tenths of a percent
FullPercent == 1000

\* the last text matches coverFuncLine as the others do: `a/x.go:12: FuncB 150.0%`
CoverStdouts ==
    { <<CoverLine(FALSE, <<>>, "", 0)>>,
      <<CoverLine(TRUE, <<"a", "/", "x.go">>, "FuncA", 750),
        CoverLine(TRUE, <<"total">>, "(statements)", 624)>>,
      <<CoverLine(TRUE, <<"a", "/", "x.go">>, "FuncB", FullPercent + 500)>> }

RECURSIVE parseCoverFunc(_)
parseCoverFunc(data) ==
    IF data = <<>> THEN <<>>
    ELSE LET l == Head(data)
         IN  IF ~l.match \/ l.file = <<"total">> THEN parseCoverFunc(Tail(data))
             ELSE <<[Package |-> derivePackageFromFile(l.file), File |-> l.file,
                     Function |-> l.fn, Coverage |-> l.pct]>> \o parseCoverFunc(Tail(data))

\* One line of gocognit: its whitespace-separated fields, with numeric saying
\* whether strconv.Atoi accepts the first one.
CognitLine(nfields, numeric, n, pkg, fn, file, line) ==
    [nfields |-> nfields, numeric |-> numeric, n |-> n, pkg |-> pkg, fn |-> fn, file |-> file, line |-> line]

CognitStdouts ==
    { <<CognitLine(2, FALSE, 0, <<>>, "", <<>>, 0)>>,
      <<CognitLine(4, TRUE, 7, <<"p">>, "FuncA", <<"x.go">>, 12),
        CognitLine(4, FALSE, 0, <<"p">>, "FuncB", <<"x.go">>, 20)>> }

RECURSIVE parseGocognitOutput(_)
parseGocognitOutput(data) ==
    IF data = <<>> THEN <<>>
    ELSE LET l == Head(data)
         IN  IF l.nfields < 4 \/ ~l.numeric THEN parseGocognitOutput(Tail(data))
             ELSE <<[Package |-> l.pkg, File |-> l.file, Function |-> l.fn, Line |-> l.line,
                     Complexity |-> l.n]>> \o parseGocognitOutput(Tail(data))

\* stdout of `deadcode -json`: a JSON array of packages with their Funcs, or not JSON
DeadcodeStdouts ==
    { [valid |-> FALSE, pkgs |-> <<>>],
      [valid |-> TRUE, pkgs |-> <<[Path |-> <<"p">>,
                                   Funcs |-> <<[Name |-> "unused", File |-> <<"x.go">>, Line |-> 5]>>]>>] }

RECURSIVE deadFuncsOf(_)
deadFuncsOf(pkgs) ==
    IF pkgs = <<>> THEN <<>>
    ELSE [k \in 1..Len(Head(pkgs).Funcs) |->
             [Package |-> Head(pkgs).Path, File |-> Head(pkgs).Funcs[k].File,
              Line |-> Head(pkgs).Funcs[k].Line, Function |-> Head(pkgs).Funcs[k].Name]]
         \o deadFuncsOf(Tail(pkgs))

parseDeadcodeOutput(data) == IF ~data.valid THEN <<>> ELSE deadFuncsOf(data.pkgs)

\* One line of `dupl -plumbing`: blank, not matching duplLine, or file:start-end
DuplEntry(file, start, end) == [blank |-> FALSE, match |-> TRUE, File |-> file, StartLine |-> start, EndLine |-> end]

DuplBlank == [blank |-> TRUE, match |-> FALSE, File |-> <<>>, StartLine |-> 0, EndLine |-> 0]

DuplStdouts ==
    { <<DuplEntry(<<"x.go">>, 1, 9)>>,
      <<DuplEntry(<<"x.go">>, 1, 9), DuplEntry(<<"y.go">>, 3, 11), DuplBlank>> }

DuplThreshold == 50

groupToDuplicates(group, tokens) ==
    [k \in 1..(Len(group) - 1) |->
        [File1 |-> group[1].File, StartLine1 |-> group[1].StartLine, EndLine1 |-> group[1].EndLine,
         File2 |-> group[k + 1].File, StartLine2 |-> group[k + 1].StartLine,
         EndLine2 |-> group[k + 1].EndLine, Tokens |-> tokens]]

RECURSIVE parseDuplLines(_, _, _)
parseDuplLines(data, group, threshold) ==
    LET flush == IF Len(group) >= 2 THEN groupToDuplicates(group, threshold) ELSE <<>>
    IN  IF data = <<>> THEN flush
        ELSE IF Head(data).blank THEN flush \o parseDuplLines(Tail(data), <<>>, threshold)
        ELSE IF ~Head(data).match THEN parseDuplLines(Tail(data), group, threshold)
        ELSE parseDuplLines(Tail(data), Append(group, Head(data)), threshold)

parseDuplOutput(data, threshold) == parseDuplLines(data, <<>>, threshold)

\* One message of `govulncheck -json`
VulnOSV(id, summary) == [valid |-> TRUE, kind |-> "osv", ID |-> id, Summary |-> summary, FixedVersion |-> "", Trace |-> <<>>]

VulnFinding(id, fixed, trace) == [valid |-> TRUE, kind |-> "finding", ID |-> id, Summary |-> "", FixedVersion |-> fixed, Trace |-> trace]

VulnStdouts ==
    { <<[valid |-> FALSE, kind |-> "", ID |-> "", Summary |-> "", FixedVersion |-> "", Trace |-> <<>>]>>,
      <<VulnFinding("GO-1", "v1.2.3", <<[Package |-> <<"p">>, Function |-> "F"]>>),
        VulnOSV("GO-1", "bad"),
        VulnFinding("GO-1", "", <<[Package |-> <<"q">>, Function |-> "G"]>>)>> }

RECURSIVE osvSummaries(_, _)
osvSummaries(data, m) ==
    IF data = <<>> THEN m
    ELSE IF Head(data).valid /\ Head(data).kind = "osv"
         THEN osvSummaries(Tail(data), [x \in DOMAIN m \cup {Head(data).ID} |->
                                          IF x = Head(data).ID THEN Head(data).Summary ELSE m[x]])
         ELSE osvSummaries(Tail(data), m)

RECURSIVE applyTrace(_, _)
applyTrace(v, trace) ==
    IF trace = <<>> THEN v
    ELSE LET t == Head(trace)
             v1 == IF t.Package # <<>> /\ v.AffectedPackage = <<>> THEN [v EXCEPT !.AffectedPackage = t.Package] ELSE v
             v2 == IF t.Function # "" THEN [v1 EXCEPT !.Symbols = Append(@, t.Function)] ELSE v1
         IN  applyTrace(v2, Tail(trace))

RECURSIVE foldFindings(_, _, _)
foldFindings(data, vulns, m) ==
    IF data = <<>> THEN vulns
    ELSE LET f == Head(data)
         IN  IF ~(f.valid /\ f.kind = "finding") THEN foldFindings(Tail(data), vulns, m)
             ELSE LET seen == {k \in 1..Len(vulns) : vulns[k].ID = f.ID}
                      vs == IF seen = {}
                            THEN Append(vulns, [ID |-> f.ID, Summary |-> IF f.ID \in DOMAIN m THEN m[f.ID] ELSE "",
                                                AffectedPackage |-> <<>>, FixedVersion |-> f.FixedVersion,
                                                Symbols |-> <<>>])
                            ELSE vulns
                  IN  foldFindings(Tail(data),
                                   [k \in 1..Len(vs) |-> IF vs[k].ID = f.ID THEN applyTrace(vs[k], f.Trace) ELSE vs[k]],
                                   m)

parseGovulncheckOutput(data) == foldFindings(data, <<>>, osvSummaries(data, [x \in {} |-> ""]))

\* ------------------------------------------------------ audit step runners
\* runCoverage: `go test -coverprofile`, then `go tool cover -func`
runCoverage(at) ==
    LET t == Call(at, "run", "go test -coverprofile")
        c == Call(at, "run", "go tool cover -func")
    IN  { StepRun(Errorf("creating cover profile: "), None, {}, Env(TRUE, FALSE, 0, 0, FALSE)),
          StepRun(Errorf("executing go test -coverprofile: "), None, {t}, Env(TRUE, FALSE, 0, 0, FALSE)),
          StepRun(Errorf("go test -coverprofile failed"), None, {t}, Env(TRUE, TRUE, 1, 0, FALSE)),
          StepRun(Errorf("executing go tool cover -func: "), None, {t, c}, Env(TRUE, FALSE, 0, 0, FALSE)) }
        \cup { StepRun(NoErr, parseCoverFunc(o.Stdout), {t, c},
                       Env(TRUE, TRUE, 0, Len(parseCoverFunc(o.Stdout)), FALSE))
               : o \in RunResults(CoverStdouts) }

runComplexity(at) ==
    ResolvedToolRun(at, "gocognit",
        { Parsed(o, parseGocognitOutput(o.Stdout), Len(parseGocognitOutput(o.Stdout)))
          : o \in RunResults(CognitStdouts) })

runDeadcode(at) ==
    ResolvedToolRun(at, "deadcode",
        { Parsed(o, parseDeadcodeOutput(o.Stdout), Len(parseDeadcodeOutput(o.Stdout)))
          : o \in RunResults(DeadcodeStdouts) })

runDupl(at) ==
    ResolvedToolRun(at, "dupl",
        { Parsed(o, parseDuplOutput(o.Stdout, DuplThreshold), Len(parseDuplOutput(o.Stdout, DuplThreshold)))
          : o \in RunResults(DuplStdouts) })

runVulncheck(at) ==
    ResolvedToolRun(at, "govulncheck",
        { Parsed(o, parseGovulncheckOutput(o.Stdout), Len(parseGovulncheckOutput(o.Stdout)))
          : o \in RunResults(VulnStdouts) })

\* ---------------------------------------------------------- Engine.Audit
\* Format*Summary(entries): the count it prints
FormatSummary(entries) == <<"summary", Len(entries)>>

\* mutant: a step whose tool is missing is left skipped
AuditStepResultSkipsUnavailable(step, r) ==
    IF IsErr(r.err)
    THEN IF r.err.unavailable THEN StepResult(step, "skipped", r.err.msg, <<>>)
         ELSE StepResult(step, "error", r.err.msg, <<>>)
    ELSE StepResult(step, "done", <<>>, FormatSummary(r.value))

\* mutant: a missing tool is reported as an error
AuditStepResultNoUnavailable(step, r) ==
    IF IsErr(r.err) THEN StepResult(step, "error", r.err.msg, <<>>)
    ELSE StepResult(step, "done", <<>>, FormatSummary(r.value))

\* the status of an audit step from what its runner returned
AuditStepResult(step, r) ==
    IF IsErr(r.err)
    THEN IF r.err.unavailable THEN StepResult(step, "unavailable", r.err.msg, <<>>)
         ELSE StepResult(step, "error", r.err.msg, <<>>)
    ELSE StepResult(step, "done", <<>>, FormatSummary(r.value))

\* default:
AuditUnknownResult(step) == StepResult(step, "error", <<"unknown step: ", step>>, <<>>)

\* Audit from its entry to the start of the step loop
AuditBegin ==
    /\ pc = "idle"
    /\ op' = "audit"
    /\ pc' = "loop"
    /\ rr' = NewRunResult(RunID, "audit")
    /\ results' = InitialResults(AuditSteps(config))
    /\ idx' = 1
    /\ calls' = {}
    /\ outcomes' = <<>>
    /\ ret' = None
    /\ UNCHANGED <<config, fix, failedIdx, fixEnv, ctx, runnerVars, writerVars, reportVars, miscVars>>

\* `for i, step := range steps`: does the loop go on after step number i
AuditContinues(i, n) == i < n

\* `return &AuditResult{...}, nil`
AuditResult(r, steps) == [RunResult |-> r, Steps |-> steps, Err |-> ""]

\* the end of one iteration of Audit's loop, and the return when the loop ends
AuditAdvance(res, r1, r) ==
    LET rs == [results EXCEPT ![idx] = res]
    IN  /\ results' = rs
        /\ rr' = r1
        /\ calls' = calls \cup r.calls
        /\ outcomes' = Append(outcomes, r.env)
        /\ IF AuditContinues(idx, Len(AuditSteps(config)))
           THEN pc' = "loop" /\ idx' = idx + 1 /\ ret' = ret
           ELSE pc' = "done" /\ idx' = idx /\ ret' = AuditResult(r1, rs)
        /\ StartedUnder(ctx, r)
        /\ UNCHANGED <<config, op, fix, failedIdx, fixEnv, ctx, runnerVars, writerVars, reportVars, miscVars>>

AtAuditStep(name) == op = "audit" /\ pc = "loop" /\ AuditSteps(config)[idx] = name

AuditCoverage ==
    /\ AtAuditStep("coverage")
    /\ \E r \in runCoverage(idx) :
         AuditAdvance(AuditStepResult("coverage", r),
                      IF IsErr(r.err) THEN rr ELSE [rr EXCEPT !.Coverage = r.value], r)

AuditComplexity ==
    /\ AtAuditStep("complexity")
    /\ \E r \in runComplexity(idx) :
         AuditAdvance(AuditStepResult("complexity", r),
                      IF IsErr(r.err) THEN rr ELSE [rr EXCEPT !.Complexity = r.value], r)

AuditDeadcode ==
    /\ AtAuditStep("deadcode")
    /\ \E r \in runDeadcode(idx) :
         AuditAdvance(AuditStepResult("deadcode", r),
                      IF IsErr(r.err) THEN rr ELSE [rr EXCEPT !.DeadFuncs = r.value], r)

AuditDupl ==
    /\ AtAuditStep("dupl")
    /\ \E r \in runDupl(idx) :
         AuditAdvance(AuditStepResult("dupl", r),
                      IF IsErr(r.err) THEN rr ELSE [rr EXCEPT !.Duplicates = r.value], r)

AuditVulncheck ==
    /\ AtAuditStep("vulncheck")
    /\ \E r \in runVulncheck(idx) :
         AuditAdvance(AuditStepResult("vulncheck", r),
                      IF IsErr(r.err) THEN rr ELSE [rr EXCEPT !.Vulns = r.value], r)

AuditUnknown ==
    /\ op = "audit" /\ pc = "loop"
    /\ AuditSteps(config)[idx] \notin {"coverage", "complexity", "deadcode", "dupl", "vulncheck"}
    /\ AuditAdvance(AuditUnknownResult(AuditSteps(config)[idx]), rr,
                    StepRun(NoErr, None, {}, Env(FALSE, FALSE, 0, 0, FALSE)))

\* ------------------------------------------------------------------ paths
\* A path is [abs, elems]: whether it starts with a separator, and its elements
\* between separators, each a sequence of characters.  The empty string is the
\* relative path without elements.
Path(abs, elems) == [abs |-> abs, elems |-> elems]

Dot == <<".">>

DotDot == <<".", ".">>

EmptyString == Path(FALSE, <<>>)

IsAbs(p) == p.abs

Take(s, n) == SubSeq(s, 1, n)

Drop(s, n) == SubSeq(s, n + 1, Len(s))

Min(a, b) == IF a <= b THEN a ELSE b

RECURSIVE CleanElems(_, _, _)
CleanElems(elems, rooted, out) ==
    IF elems = <<>> THEN out
    ELSE LET e == Head(elems)
             rest == Tail(elems)
         IN  IF e = Dot THEN CleanElems(rest, rooted, out)
             ELSE IF e = DotDot
             THEN IF out # <<>> /\ out[Len(out)] # DotDot
                  THEN CleanElems(rest, rooted, Take(out, Len(out) - 1))
                  ELSE IF rooted THEN CleanElems(rest, rooted, out)
                  ELSE CleanElems(rest, rooted, Append(out, DotDot))
             ELSE CleanElems(rest, rooted, Append(out, e))

\* filepath.Clean; the result without elements is "/" when rooted and "." otherwise
Clean(p) == Path(p.abs, CleanElems(p.elems, p.abs, <<>>))

\* filepath.Join(a, b): empty arguments are ignored, the rest is joined and cleaned
Join(a, b) ==
    IF a = EmptyString THEN (IF b = EmptyString THEN EmptyString ELSE Clean(b))
    ELSE Clean(Path(a.abs, a.elems \o b.elems))

RECURSIVE CommonPrefixLen(_, _)
CommonPrefixLen(a, b) ==
    IF a = <<>> \/ b = <<>> \/ Head(a) # Head(b) THEN 0
    ELSE 1 + CommonPrefixLen(Tail(a), Tail(b))

\* filepath.Rel(basepath, targpath): [err, path]
Rel(basepath, targpath) ==
    LET base == Clean(basepath)
        targ == Clean(targpath)
        n == CommonPrefixLen(base.elems, targ.elems)
        b == Drop(base.elems, n)
        t == Drop(targ.elems, n)
    IN  IF base.abs # targ.abs THEN [err |-> TRUE, path |-> EmptyString]
        ELSE IF b # <<>> /\ b[1] = DotDot THEN [err |-> TRUE, path |-> EmptyString]
        ELSE [err |-> FALSE, path |-> Path(FALSE, [k \in 1..Len(b) |-> DotDot] \o t)]

RECURSIVE JoinElems(_)
JoinElems(elems) ==
    IF elems = <<>> THEN <<>>
    ELSE IF Len(elems) = 1 THEN elems[1]
    ELSE elems[1] \o <<"/">> \o JoinElems(Tail(elems))

\* the characters of a cleaned path
PathString(p) ==
    IF p.abs THEN <<"/">> \o JoinElems(p.elems)
    ELSE IF p.elems = <<>> THEN Dot
    ELSE JoinElems(p.elems)

\* strings.HasPrefix
HasPrefix(str, prefix) == Len(str) >= Len(prefix) /\ Take(str, Len(prefix)) = prefix

\* ------------------------------------------------------------------ runner
RunError(msg) == [result |-> None, err |-> msg]

\* mutant: the bound of the workspace is not enforced
resolveDirUnchecked(r, dir) ==
    IF dir = EmptyString THEN [dir |-> r.Workspace, err |-> ""]
    ELSE [dir |-> IF IsAbs(dir) THEN Clean(dir) ELSE Clean(Join(r.Workspace, dir)), err |-> ""]

\* Runner.resolveDir: [dir, err]
resolveDir(r, dir) ==
    IF dir = EmptyString THEN [dir |-> r.Workspace, err |-> ""]
    ELSE LET d == IF IsAbs(dir) THEN Clean(dir) ELSE Clean(Join(r.Workspace, dir))
             rel == Rel(r.Workspace, d)
         IN  IF rel.err THEN [dir |-> EmptyString, err |-> "resolving cwd"]
             ELSE IF HasPrefix(PathString(rel.path), DotDot)
             THEN [dir |-> EmptyString, err |-> "outside workspace"]
             ELSE [dir |-> d, err |-> ""]

\* mutant: everything written is kept
limitWriterWriteAll(w, p) == [buf |-> w.buf \o p, n |-> Len(p), err |-> ""]

\* mutant: the bytes that do not fit are reported as not written
limitWriterWriteShort(w, p) ==
    LET remaining == w.limit - Len(w.buf)
    IN  IF remaining <= 0 THEN [buf |-> w.buf, n |-> 0, err |-> "short write"]
        ELSE IF Len(p) > remaining
        THEN [buf |-> w.buf \o Take(p, remaining), n |-> remaining, err |-> "short write"]
        ELSE [buf |-> w.buf \o p, n |-> Len(p), err |-> ""]

\* limitWriter.Write: the buffer afterwards and the returned (n, err)
limitWriterWrite(w, p) ==
    LET remaining == w.limit - Len(w.buf)
    IN  IF remaining <= 0 THEN [buf |-> w.buf, n |-> Len(p), err |-> ""]
        ELSE IF Len(p) > remaining
        THEN [buf |-> w.buf \o Take(p, remaining), n |-> Len(p), err |-> ""]
        ELSE [buf |-> w.buf \o p, n |-> Len(p), err |-> ""]

limitWriter(limit) == [buf |-> <<>>, limit |-> limit]

Child(state, code) == [state |-> state, code |-> code]

\* mutant: truncated only when more than the cap was captured
ResultTruncatedBeyondCap(code, c, maxOutput) ==
    [RunID |-> RunID,
     ExitCode |-> code,
     Stdout |-> c.Stdout.buf,
     Stderr |-> c.Stderr.buf,
     Truncated |-> Len(c.Stdout.buf) > maxOutput \/ Len(c.Stderr.buf) > maxOutput]

\* mutant: the exit code of the subprocess is dropped
ResultWithoutExitCode(code, c, maxOutput) ==
    [RunID |-> RunID,
     ExitCode |-> 0,
     Stdout |-> c.Stdout.buf,
     Stderr |-> c.Stderr.buf,
     Truncated |-> Len(c.Stdout.buf) >= maxOutput \/ Len(c.Stderr.buf) >= maxOutput]

Result(code, c, maxOutput) ==
    [RunID |-> RunID,
     ExitCode |-> code,
     Stdout |-> c.Stdout.buf,
     Stderr |-> c.Stderr.buf,
     Truncated |-> Len(c.Stdout.buf) >= maxOutput \/ Len(c.Stderr.buf) >= maxOutput]

PathElems == {<<"a">>, <<"b">>, Dot, DotDot, <<".", ".", "a">>}

Cwds == {Path(abs, elems) : abs \in BOOLEAN, elems \in SeqsUpTo(PathElems, MaxPath)}

Argvs == {<<>>, <<"go">>}

Bytes == {"x", "y"}

\* the chunks a subprocess writes
ChildChunks == SeqsUpTo({"x"}, MaxChunk)

ExitCodes == {0, 1}

\* Run up to cmd.Run(): the argv check, resolveDir, and the start of the process
RunStart(av, dir) ==
    /\ rpc = "idle"
    /\ argv' = av
    /\ cwd' = dir
    /\ stream' = stream
    /\ wrote' = wrote
    /\ runner' = runner
    /\ UNCHANGED <<writerVars, reportVars, miscVars>>
    /\ IF Len(av) = 0
       THEN /\ runRet' = RunError("empty argv")
            /\ rpc' = "returned"
            /\ UNCHANGED <<cmd, spawned, child>>
       ELSE LET d == resolveDir(runner, dir)
            IN  IF d.err # ""
                THEN /\ runRet' = RunError(d.err)
                     /\ rpc' = "returned"
                     /\ UNCHANGED <<cmd, spawned, child>>
                ELSE /\ cmd' = [Dir |-> d.dir,
                                Stdout |-> limitWriter(runner.MaxOutput),
                                Stderr |-> limitWriter(runner.MaxOutput)]
                     /\ \/ /\ spawned' = TRUE
                           /\ child' = Child("running", 0)
                           /\ rpc' = "running"
                           /\ runRet' = runRet
                        \/ /\ spawned' = FALSE
                           /\ child' = child
                           /\ rpc' = "returned"
                           /\ runRet' = RunError("executing")
    /\ UNCHANGED engineVars

\* the subprocess writes p to its standard output
WriteStdout(p) ==
    /\ rpc = "running"
    /\ Len(stream.Stdout) + Len(p) <= MaxStream
    /\ LET w == limitWriterWrite(cmd.Stdout, p)
       IN  /\ cmd' = [cmd EXCEPT !.Stdout.buf = w.buf]
           /\ wrote' = [len |-> Len(p), n |-> w.n, err |-> w.err]
    /\ stream' = [stream EXCEPT !.Stdout = @ \o p]
    /\ UNCHANGED <<runner, rpc, argv, cwd, spawned, child, runRet, engineVars, writerVars, reportVars, miscVars>>

\* the subprocess writes p to its standard error
WriteStderr(p) ==
    /\ rpc = "running"
    /\ Len(stream.Stderr) + Len(p) <= MaxStream
    /\ LET w == limitWriterWrite(cmd.Stderr, p)
       IN  /\ cmd' = [cmd EXCEPT !.Stderr.buf = w.buf]
           /\ wrote' = [len |-> Len(p), n |-> w.n, err |-> w.err]
    /\ stream' = [stream EXCEPT !.Stderr = @ \o p]
    /\ UNCHANGED <<runner, rpc, argv, cwd, spawned, child, runRet, engineVars, writerVars, reportVars, miscVars>>

\* a Write to a limitWriter on its own
Write(p) ==
    /\ Len(written) + Len(p) <= MaxWritten
    /\ LET r == limitWriterWrite(lw, p)
       IN  /\ lw' = [lw EXCEPT !.buf = r.buf]
           /\ wrote' = [len |-> Len(p), n |-> r.n, err |-> r.err]
    /\ written' = written \o p
    /\ UNCHANGED <<runner, rpc, argv, cwd, cmd, spawned, child, stream, runRet, engineVars, reportVars, miscVars>>

\* Run after cmd.Run(): runErr is "" (nil), "exit" (an *exec.ExitError with
\* this code) or any other error
RunReturn(runErr, code) ==
    /\ rpc' = "returned"
    /\ runRet' = IF runErr \in {"", "exit"}
                 THEN [result |-> Result(code, cmd, runner.MaxOutput), err |-> ""]
                 ELSE RunError("executing")
    /\ UNCHANGED <<runner, argv, cwd, cmd, spawned, stream, wrote, engineVars, writerVars, reportVars, miscVars>>

\* the subprocess exits: cmd.Run() returns nil or an *exec.ExitError
RunExit(code) ==
    /\ rpc = "running"
    /\ child' = Child("exited", code)
    /\ RunReturn(IF code = 0 THEN "" ELSE "exit", code)

\* the deadline passes (or the caller cancels): the subprocess is killed and
\* cmd.Run() returns either an *exec.ExitError for the signal, whose ExitCode()
\* is -1, or the error of the context
RunTimeout ==
    /\ rpc = "running"
    /\ child' = Child("killed", -1)
    /\ \/ RunReturn("exit", -1)
       \/ RunReturn("context deadline exceeded", -1)

\* ------------------------------------------------------------ report store
\* capacity of the in-memory cache
MaxCap == 2

RunIDs == {"r1", "r2", "r3"}

\* A Go slice: nil, or a list that may be empty
Slice(isNil, elems) == [nil |-> isNil, elems |-> elems]

NilSlice == Slice(TRUE, <<>>)

\* A RunResult as the stores see it: ID, Kind, one check list and one audit list
StoredResult(id, kind, lint, vulns) == [ID |-> id, Kind |-> kind, LintIssues |-> lint, Vulns |-> vulns]

\* a member of a JSON object: absent, or present with a list
Omitted == [present |-> FALSE, value |-> <<>>]

Member(v) == [present |-> TRUE, value |-> v]

\* json.Marshal with omitempty: a nil or empty list is left out of the document
Marshal(r) ==
    [id |-> r.ID, kind |-> r.Kind,
     lint_issues |-> IF Len(r.LintIssues.elems) = 0 THEN Omitted ELSE Member(r.LintIssues.elems),
     vulns |-> IF Len(r.Vulns.elems) = 0 THEN Omitted ELSE Member(r.Vulns.elems)]

\* json.Unmarshal into a zero RunResult: an absent member leaves the field nil
Unmarshal(data) ==
    [ID |-> data.id, Kind |-> data.kind,
     LintIssues |-> IF data.lint_issues.present THEN Slice(FALSE, data.lint_issues.value) ELSE NilSlice,
     Vulns |-> IF data.vulns.present THEN Slice(FALSE, data.vulns.value) ELSE NilSlice]

RoundTrip(r) == Unmarshal(Marshal(r))

\* RunResult.Expect: the kind against the wanted kind, nothing else
Expect(r, want) == IF r.Kind # want THEN "is not a run of that kind" ELSE ""

NoFiles == [id \in RunIDs |-> None]

\* DiskStore.ensureDir: made is whether os.MkdirTemp succeeds
ensureDir(d, made) ==
    IF d.dir # ""
    THEN [disk |-> d, err |-> ""]
    ELSE IF made
         THEN [disk |-> [d EXCEPT !.dir = "governor-runs"], err |-> ""]
         ELSE [disk |-> d, err |-> "creating result directory"]

\* DiskStore.Save: env is "ok", "mkdir" (MkdirTemp fails) or "write" (WriteFile fails)
DiskSave(d, result, env) ==
    LET e == ensureDir(d, env # "mkdir")
    IN  IF e.err # ""
        THEN e
        ELSE IF env = "write"
             THEN [disk |-> e.disk, err |-> "writing result"]
             ELSE [disk |-> [e.disk EXCEPT !.files[result.ID] = Marshal(result)], err |-> ""]

DiskLoadForgets(d, runID, made) ==
    LET e == ensureDir(d, made)
    IN  [disk |-> e.disk, result |-> None, err |-> IF e.err # "" THEN e.err ELSE "reading result"]

\* DiskStore.Load
DiskLoad(d, runID, made) ==
    LET e == ensureDir(d, made)
    IN  IF e.err # ""
        THEN [disk |-> e.disk, result |-> None, err |-> e.err]
        ELSE IF e.disk.files[runID] = None
             THEN [disk |-> e.disk, result |-> None, err |-> "reading result"]
             ELSE [disk |-> e.disk, result |-> Unmarshal(e.disk.files[runID]), err |-> ""]

NewLRUStore(cap) == [cap |-> IF cap < 1 THEN 1 ELSE cap, order |-> <<>>, items |-> <<>>]

Cached(l) == DOMAIN l.items

pushFrontAtTail(order, key) == order \o <<key>>

pushFront(order, key) == <<key>> \o order

remove(order, key) == SelectSeq(order, LAMBDA k : k # key)

keepPlace(order, key) == order

moveToFront(order, key) == pushFront(remove(order, key), key)

\* the tail leaves the list and the map
evict(l) ==
    LET last == l.order[Len(l.order)]
    IN  [l EXCEPT !.order = remove(l.order, last),
                  !.items = [k \in Cached(l) \ {last} |-> l.items[k]]]

\* a new entry at the head; the tail is evicted when the map outgrows cap
insert(l, key, result) ==
    LET grown == [l EXCEPT !.order = pushFront(l.order, key),
                           !.items = [k \in Cached(l) \cup {key} |-> IF k = key THEN result ELSE l.items[k]]]
    IN  IF Cardinality(Cached(grown)) > grown.cap THEN evict(grown) ELSE grown

cacheSaveKeepsOld(l, result) ==
    IF result.ID \in Cached(l)
    THEN [l EXCEPT !.order = moveToFront(l.order, result.ID)]
    ELSE insert(l, result.ID, result)

\* the cache half of LRUStore.Save
cacheSave(l, result) ==
    IF result.ID \in Cached(l)
    THEN [l EXCEPT !.items[result.ID] = result, !.order = moveToFront(l.order, result.ID)]
    ELSE insert(l, result.ID, result)

\* the history of accesses after one more of id
Touch(acc, id) == <<id>> \o SelectSeq(acc, LAMBDA k : k # id)

\* LRUStore.Save: the cache first, then the backing store, whose error is returned
SaveOp(result, env) ==
    /\ lru' = cacheSave(lru, result)
    /\ accessed' = Touch(accessed, result.ID)
    /\ LET b == DiskSave(disk, result, env)
       IN  /\ disk' = b.disk
           /\ sret' = [result |-> None, err |-> b.err]
           /\ saved' = [saved EXCEPT ![result.ID] =
                            [result |-> result, ok |-> b.err = "",
                             stored |-> IF b.err = "" THEN result
                                        ELSE IF saved[result.ID] = None THEN None
                                        ELSE saved[result.ID].stored]]
    /\ sop' = [op |-> "save", id |-> result.ID, hit |-> FALSE]

Save(result, env) ==
    /\ SaveOp(result, env)
    /\ UNCHANGED <<symbolVars, adapterVars, engineVars, runnerVars, writerVars, miscVars>>

\* LRUStore.Load: a hit moves the entry to the head; a miss reads the backing
\* store and promotes what it returned
LoadOp(runID, made) ==
    /\ sop' = [op |-> "load", id |-> runID, hit |-> runID \in Cached(lru)]
    /\ IF runID \in Cached(lru)
       THEN /\ lru' = [lru EXCEPT !.order = moveToFront(lru.order, runID)]
            /\ sret' = [result |-> lru.items[runID], err |-> ""]
            /\ disk' = disk
            /\ accessed' = Touch(accessed, runID)
       ELSE LET b == DiskLoad(disk, runID, made)
            IN  /\ disk' = b.disk
                /\ sret' = [result |-> b.result, err |-> b.err]
                /\ lru' = IF b.err # "" THEN lru ELSE insert(lru, runID, b.result)
                /\ accessed' = IF b.err # "" THEN accessed ELSE Touch(accessed, runID)
    /\ UNCHANGED saved

Load(runID, made) ==
    /\ LoadOp(runID, made)
    /\ UNCHANGED <<symbolVars, adapterVars, engineVars, runnerVars, writerVars, miscVars>>

\* ---------------------------------------------------------- splitSymbol
MaxSym == 4

SymChars == {"a", ".", "/"}

\* strings.Index for a one-character substring, one-based as LastIndex is: 0 when absent
Index(s, c) == IF IndexesOf(s, c) = {} THEN 0 ELSE CHOOSE k \in IndexesOf(s, c) : \A j \in IndexesOf(s, c) : k <= j

splitSymbol(s) ==
    LET lastSlash == LastIndex(s, "/") - 1
        afterSlash == Drop(s, lastSlash + 1)
        dotIdx == Index(afterSlash, ".") - 1
    IN  IF dotIdx < 0
        THEN [pkg |-> s, name |-> <<>>]
        ELSE [pkg |-> Take(s, lastSlash + 1 + dotIdx), name |-> Drop(afterSlash, dotIdx + 1)]

Diagnostic(source, pkg, symbol, message) ==
    [Source |-> source, Package |-> pkg, Symbol |-> symbol, Message |-> message]

\* one list of a RunResult as diagnostics; symbol is the field that names the
\* symbol, "" for the lists that have none
ListDiagnostics(list, source, symbol) ==
    [k \in 1..Len(list) |->
        Diagnostic(source, list[k].Package, IF symbol = "" THEN <<>> ELSE list[k][symbol], list[k].Message)]

\* toDiagnostics: the lists flattened in the order of the fields; a duplicate
\* has neither package nor symbol, a vulnerability has the affected package
toDiagnostics(r) ==
    ListDiagnostics(r.FormatIssues, "format", "")
    \o ListDiagnostics(r.BuildErrors, "build", "")
    \o ListDiagnostics(r.TestFailures, "test", "Test")
    \o ListDiagnostics(r.LintIssues, "lint", "")
    \o ListDiagnostics(r.StaticIssues, "staticcheck", "")
    \o ListDiagnostics(r.Coverage, "coverage", "Function")
    \o ListDiagnostics(r.Complexity, "complexity", "Function")
    \o ListDiagnostics(r.DeadFuncs, "deadcode", "Function")
    \o [k \in 1..Len(r.Duplicates) |-> Diagnostic("dupl", <<>>, <<>>, r.Duplicates[k].Message)]
    \o [k \in 1..Len(r.Vulns) |-> Diagnostic("vulncheck", r.Vulns[k].AffectedPackage, <<>>, r.Vulns[k].Summary)]

ByPackage(result, pkg) == SelectSeq(toDiagnostics(result), LAMBDA d : d.Package = pkg)

BySymbolOf(result, q) ==
    LET s == splitSymbol(q)
    IN  IF s.name = <<>> THEN ByPackage(result, s.pkg)
        ELSE SelectSeq(toDiagnostics(result), LAMBDA d : d.Package = s.pkg /\ d.Symbol = s.name)

\* BySymbol
BySymbol ==
    /\ split = None
    /\ split' = splitSymbol(sym)
    /\ symOut' = BySymbolOf(symResult, sym)
    /\ UNCHANGED <<sym, symResult, storeVars, adapterVars, engineVars, runnerVars, writerVars, miscVars>>

\* ------------------------------------------------------ ResolvePackages
MaxPkgs == 2

Dots == <<".", ".", ".">>

\* the characters of a path as it was written
RawString(p) == (IF p.abs THEN <<"/">> ELSE <<>>) \o JoinElems(p.elems)

\* strings.HasSuffix
HasSuffix(str, suffix) == Len(str) >= Len(suffix) /\ Drop(str, Len(str) - Len(suffix)) = suffix

DefaultPackages == <<Dot \o <<"/">> \o Dots>>

resolveAbsKeepsAll(e, p) ==
    LET base == IF e.RepoRoot = EmptyString THEN e.Workspace ELSE e.RepoRoot
        rel == Rel(base, p)
        pattern == <<".", "/">> \o PathString(rel.path)
    IN  <<IF HasSuffix(pattern, Dots) THEN pattern ELSE pattern \o <<"/">> \o Dots>>

\* the branch of an absolute path: nothing when it is outside the base, else
\* its pattern relative to the base
resolveAbs(e, p) ==
    LET base == IF e.RepoRoot = EmptyString THEN e.Workspace ELSE e.RepoRoot
        rel == Rel(base, p)
        pattern == <<".", "/">> \o PathString(rel.path)
    IN  IF rel.err \/ HasPrefix(PathString(rel.path), DotDot) THEN <<>>
        ELSE <<IF HasSuffix(pattern, Dots) THEN pattern ELSE pattern \o <<"/">> \o Dots>>

ResolveReturned(v) == [returned |-> TRUE, value |-> v]

\* ResolvePackages up to its loop
ResolveBegin ==
    /\ ~rpRet.returned
    /\ rpIdx = 0
    /\ IF Len(packages) = 0
       THEN rpRet' = ResolveReturned(DefaultPackages) /\ rpIdx' = rpIdx
       ELSE rpRet' = rpRet /\ rpIdx' = 1
    /\ UNCHANGED <<rpEngine, packages, rpResolved, engineVars, runnerVars, writerVars, reportVars, otherThanResolve>>

\* one iteration of the loop
ResolveNext ==
    /\ ~rpRet.returned
    /\ rpIdx \in 1..Len(packages)
    /\ LET p == packages[rpIdx]
       IN  rpResolved' = rpResolved \o (IF IsAbs(p) THEN resolveAbs(rpEngine, p) ELSE <<RawString(p)>>)
    /\ rpIdx' = rpIdx + 1
    /\ UNCHANGED <<rpEngine, packages, rpRet, engineVars, runnerVars, writerVars, reportVars, otherThanResolve>>

\* after the loop
ResolveReturn ==
    /\ ~rpRet.returned
    /\ rpIdx = Len(packages) + 1
    /\ rpRet' = ResolveReturned(IF Len(rpResolved) = 0 THEN DefaultPackages ELSE rpResolved)
    /\ UNCHANGED <<rpEngine, packages, rpIdx, rpResolved, engineVars, runnerVars, writerVars, reportVars, otherThanResolve>>

\* ------------------------------------------------------ proxied gopls tools
MaxForward == 2

\* goplsTools: the gov_* name of every proxied tool and the go_* name behind it
goplsTools ==
    { [govName |-> "gov_diagnostics", goplsName |-> "go_diagnostics"],
      [govName |-> "gov_package_api", goplsName |-> "go_package_api"],
      [govName |-> "gov_search", goplsName |-> "go_search"],
      [govName |-> "gov_file_context", goplsName |-> "go_file_context"],
      [govName |-> "gov_symbol_references", goplsName |-> "go_symbol_references"],
      [govName |-> "gov_rename_symbol", goplsName |-> "go_rename_symbol"] }

\* the tools NewServer registers before registerGoplsTools
CoreTools == {"gov_workspace", "gov_check", "gov_audit", "gov_inspect"}

\* knownTools: the install metadata of a tool, Known FALSE for a name not in the map
knownTools(name) ==
    IF name = "golangci-lint"
    THEN [Known |-> TRUE, ImportPath |-> "", AltInstall |-> "https://golangci-lint.run/welcome/install/", NoGoInstall |-> TRUE]
    ELSE IF name = "gopls"
    THEN [Known |-> TRUE, ImportPath |-> "golang.org/x/tools/gopls@latest", AltInstall |-> "", NoGoInstall |-> FALSE]
    ELSE [Known |-> FALSE, ImportPath |-> "", AltInstall |-> "", NoGoInstall |-> FALSE]

\* ErrToolUnavailable.Error(): the first line, then the install lines of a
\* known tool
UnavailableText(name) ==
    LET info == knownTools(name)
        head == <<name, " is required but not installed.">>
    IN  IF ~info.Known THEN head
        ELSE IF info.NoGoInstall
        THEN IF info.AltInstall # ""
             THEN head \o <<"Install: ", info.AltInstall, "go get -tool and go install are not recommended">>
             ELSE head
        ELSE IF info.ImportPath # ""
        THEN head \o <<"Install:", "go get -tool", "go install", info.ImportPath>>
        ELSE head

\* a CallToolResult with one text block
ToolResult(text, isError) == [nil |-> FALSE, text |-> text, isError |-> isError]

NilResult == [nil |-> TRUE, text |-> <<>>, isError |-> FALSE]

HandlerReturn(result, err) == [result |-> result, err |-> err]

\* req.Params.Arguments: raw JSON, absent or one JSON value
RawArguments == { [present |-> FALSE, kind |-> "none"] }
                \cup { [present |-> TRUE, kind |-> k] : k \in {"object", "null", "array", "string"} }

\* json.Unmarshal of the raw arguments into a map[string]any: an object
\* decodes, null leaves the map nil, every other value is an error
UnmarshalArgsLenient(raw) == [err |-> FALSE, args |-> IF raw.kind = "object" THEN "object" ELSE "nil"]

UnmarshalArgs(raw) ==
    IF raw.kind \in {"object", "null"}
    THEN [err |-> FALSE, args |-> IF raw.kind = "object" THEN "object" ELSE "nil"]
    ELSE [err |-> TRUE, args |-> "nil"]

\* what session.CallTool can return: a result, an error result, or an error
Upstreams ==
    { HandlerReturn(ToolResult(<<"upstream">>, FALSE), FALSE),
      HandlerReturn(ToolResult(<<"upstream failed">>, TRUE), FALSE),
      HandlerReturn(NilResult, TRUE) }

\* goplsProxy.call: CallToolParams{Name: toolName, Arguments: args}
Forward(toolName, args) == [Name |-> toolName, Arguments |-> args]

GoplsIdle(attached) ==
    /\ gopls = attached
    /\ tools = CoreTools
    /\ forwarded = <<>>
    /\ gcall = [tool |-> "", raw |-> [present |-> FALSE, kind |-> "none"], before |-> 0,
                up |-> HandlerReturn(NilResult, FALSE)]
    /\ gret = HandlerReturn(NilResult, FALSE)

\* registerGoplsTools: AddTool for every entry of goplsTools
registerGoplsTools ==
    /\ \E d \in goplsTools : d.govName \notin tools
    /\ tools' = tools \cup { d.govName : d \in goplsTools }
    /\ UNCHANGED <<gopls, forwarded, gcall, gret, engineVars, runnerVars, writerVars, reportVars, otherThanGopls>>

\* the handler makeGoplsHandler(h, d.goplsName) built, called with raw
\* arguments; up is what the upstream session answers when it is asked
makeGoplsHandler(d, raw, up) ==
    /\ d.govName \in tools
    /\ Len(forwarded) < MaxForward
    /\ gcall' = [tool |-> d.govName, raw |-> raw, before |-> Len(forwarded), up |-> up]
    /\ IF ~gopls
       THEN /\ gret' = HandlerReturn(ToolResult(UnavailableText("gopls"), TRUE), FALSE)
            /\ UNCHANGED forwarded
       ELSE LET m == IF raw.present THEN UnmarshalArgs(raw) ELSE [err |-> FALSE, args |-> "nil"]
            IN  IF m.err
                THEN /\ gret' = HandlerReturn(ToolResult(<<"invalid arguments: ">>, TRUE), FALSE)
                     /\ UNCHANGED forwarded
                ELSE /\ forwarded' = Append(forwarded, Forward(d.goplsName, m.args))
                     /\ gret' = up
    /\ UNCHANGED <<gopls, tools, engineVars, runnerVars, writerVars, reportVars, otherThanGopls>>

\* ------------------------------------------------- workspace roots
MaxRoots == 2

\* config.DefaultTimeout in seconds, config.DefaultMaxOutput in bytes
DefaultTimeout == 300

DefaultMaxOutput == 1048576

\* a Config as far as the runner reads it: RawTimeout is the parsed duration
\* in seconds, 0 for an empty or unparsable string; RawMaxOutput the byte count
RawConfig(timeout, maxOutput) == [RawTimeout |-> timeout, RawMaxOutput |-> maxOutput]

ConfigTimeout(c) == IF c.RawTimeout > 0 THEN c.RawTimeout ELSE DefaultTimeout

MaxOutputBytes(c) == IF c.RawMaxOutput > 0 THEN c.RawMaxOutput ELSE DefaultMaxOutput

\* url.Parse of a root URI: whether it parses, its scheme and its path
URL(parses, scheme, path) == [parses |-> parses, Scheme |-> scheme, Path |-> path]

\* "file:///a", "file:///b", "https://h/a", and a URI that does not parse
RootURIs ==
    { URL(TRUE, "file", "/a"), URL(TRUE, "file", "/b"), URL(TRUE, "https", "/a"), URL(FALSE, "", "") }

\* what session.ListRoots returns within the five seconds: an error (a
\* failure or the deadline) or the list of roots
Listings ==
    { [err |-> TRUE, Roots |-> <<>>] }
    \cup { [err |-> FALSE, Roots |-> r] : r \in SeqsUpTo(RootURIs, MaxRoots) }

\* what config.Load returns for a workspace: an error, or the configuration
\* with the repository root (the workspace or a directory above it)
LoadResults(workspace) ==
    { [err |-> TRUE, Config |-> RawConfig(0, 0), RepoRoot |-> ""] }
    \cup { [err |-> FALSE, Config |-> c, RepoRoot |-> root] :
             c \in {RawConfig(0, 0), RawConfig(5, 2)}, root \in {workspace, "/"} }

\* the workspace of the first root: ok is FALSE when there is none to take
firstRootAnyScheme(listed) ==
    IF listed.err \/ Len(listed.Roots) = 0 THEN [ok |-> FALSE, workspace |-> ""]
    ELSE [ok |-> listed.Roots[1].parses, workspace |-> listed.Roots[1].Path]

firstRoot(listed) ==
    IF listed.err THEN [ok |-> FALSE, workspace |-> ""]
    ELSE IF Len(listed.Roots) = 0 THEN [ok |-> FALSE, workspace |-> ""]
    ELSE LET u == listed.Roots[1]
         IN  IF ~u.parses \/ u.Scheme # "file" THEN [ok |-> FALSE, workspace |-> ""]
             ELSE [ok |-> TRUE, workspace |-> u.Path]

StartupRunner == [Workspace |-> "/w", Timeout |-> DefaultTimeout, MaxOutput |-> DefaultMaxOutput]

StartupEngine == [Config |-> RawConfig(0, 0), Workspace |-> "/w", RepoRoot |-> "/w"]

Sessions == {"s1", "s2"}

SessionsIdle(tr) ==
    /\ transport = tr
    /\ sess = [sid \in Sessions |-> "none"]
    /\ hlog = <<>>

RootsIdle ==
    /\ SessionsIdle("stdio")
    /\ hRunner = StartupRunner
    /\ hEngine = StartupEngine
    /\ neg = [called |-> FALSE, listed |-> [err |-> TRUE, Roots |-> <<>>],
              loaded |-> [err |-> TRUE, Config |-> RawConfig(0, 0), RepoRoot |-> ""],
              runner |-> StartupRunner, engine |-> StartupEngine]

\* handler.updateWorkspaceFromRoots: listed is the client's answer to
\* ListRoots, loaded what config.Load returns for the workspace it is given
updateWorkspace(listed, loaded) ==
    LET root == firstRoot(listed)
    IN  /\ neg' = [called |-> TRUE, listed |-> listed, loaded |-> loaded,
                   runner |-> hRunner, engine |-> hEngine]
        /\ IF ~root.ok \/ loaded.err
           THEN UNCHANGED <<hRunner, hEngine>>
           ELSE /\ hRunner' = [Workspace |-> root.workspace,
                               Timeout |-> ConfigTimeout(loaded.Config),
                               MaxOutput |-> MaxOutputBytes(loaded.Config)]
                /\ hEngine' = [Config |-> loaded.Config,
                               Workspace |-> root.workspace,
                               RepoRoot |-> loaded.RepoRoot]

updateWorkspaceFromRoots(listed, loaded) ==
    /\ updateWorkspace(listed, loaded)
    /\ UNCHANGED <<transport, sess, hlog>>
    /\ UNCHANGED <<engineVars, runnerVars, writerVars, reportVars, otherThanRoots>>

\* one session initialisation: config.Load is reached only with a workspace
Negotiate ==
    \E listed \in Listings :
        \E loaded \in LoadResults(firstRoot(listed).workspace) :
            updateWorkspaceFromRoots(listed, loaded)

\* ------------------------------------------------ sessions of one server
\* NewServer builds one handler; server.Run serves it to the single stdio
\* session, serveHTTP hands the same server to every HTTP request
MaxLog == 3

Transports == {"stdio", "http"}

HandlerTools == {"gov_check", "gov_audit", "gov_inspect", "gov_workspace"}

rebound(listed, loaded) == firstRoot(listed).ok /\ ~loaded.err

\* a client connects: stdio carries one session, the HTTP handler any number
Connect(sid) ==
    /\ sess[sid] = "none"
    /\ transport = "stdio" => \A o \in Sessions : sess[o] = "none"
    /\ sess' = [sess EXCEPT ![sid] = "connected"]
    /\ UNCHANGED <<hRunner, hEngine, neg, transport, hlog>>
    /\ UNCHANGED <<engineVars, runnerVars, writerVars, reportVars, otherThanRoots>>

\* ServerOptions.InitializedHandler: runs for the session that sent the
\* initialized notification, on the handler every session shares
InitializedHandler(sid, listed, loaded) ==
    /\ sess[sid] = "connected"
    /\ Len(hlog) < MaxLog
    /\ updateWorkspace(listed, loaded)
    /\ sess' = [sess EXCEPT ![sid] = "ready"]
    /\ hlog' = Append(hlog, [ev |-> IF rebound(listed, loaded) THEN "rebind" ELSE "kept",
                              session |-> sid])
    /\ UNCHANGED transport
    /\ UNCHANGED <<engineVars, runnerVars, writerVars, reportVars, otherThanRoots>>

\* a tool handler of an initialised session reads h.engine and h.runner
CallTool(sid, tool) ==
    /\ sess[sid] = "ready"
    /\ Len(hlog) < MaxLog
    /\ hlog' = Append(hlog, [ev |-> tool, session |-> sid])
    /\ UNCHANGED <<hRunner, hEngine, neg, transport, sess>>
    /\ UNCHANGED <<engineVars, runnerVars, writerVars, reportVars, otherThanRoots>>

\* ------------------------------------------- gov_check, gov_audit, gov_inspect
\* errorResult and textResult: a CallToolResult with one text block
errorResultNotFlagged(text) == [isError |-> FALSE, text |-> text]

errorResult(text) == [isError |-> TRUE, text |-> text]

textResult(text) == [isError |-> FALSE, text |-> text]

\* a tool's return and the run id its text carries ("" when it carries none)
ToolReturn(res, run) == [isError |-> res.isError, text |-> res.text, run |-> run]

ToolCall(tool, run_id, q) == [tool |-> tool, run_id |-> run_id, symbol |-> q]

\* a stored record with the lists toDiagnostics reads
AsRunResult(r) ==
    [NewRunResult(r.ID, r.Kind) EXCEPT !.LintIssues = r.LintIssues.elems, !.Vulns = r.Vulns.elems]

ServerIdle ==
    /\ tcall = ToolCall("", "", <<>>)
    /\ tret = ToolReturn(textResult(""), "")

\* handler.checkHandler: engineOk is whether Engine.Check returned a result,
\* result.RunResult is result, formatFailure whether FailedIdx is -2; the run is
\* saved whatever Save returns
checkHandler(engineOk, result, formatFailure, env) ==
    /\ saved[result.ID] = None
    /\ result.Kind = "check"
    /\ tcall' = ToolCall("gov_check", "", <<>>)
    /\ IF ~engineOk
       THEN /\ tret' = ToolReturn(errorResult("check failed"), "")
            /\ UNCHANGED storeVars
       ELSE /\ SaveOp(result, env)
            /\ tret' = ToolReturn(textResult(IF formatFailure THEN "format failure" ELSE "check"), result.ID)
    /\ UNCHANGED <<symbolVars, adapterVars, engineVars, runnerVars, writerVars, otherThanServer>>

\* handler.auditHandler
auditHandler(engineOk, result, env) ==
    /\ saved[result.ID] = None
    /\ result.Kind = "audit"
    /\ tcall' = ToolCall("gov_audit", "", <<>>)
    /\ IF ~engineOk
       THEN /\ tret' = ToolReturn(errorResult("audit failed"), "")
            /\ UNCHANGED storeVars
       ELSE /\ SaveOp(result, env)
            /\ tret' = ToolReturn(textResult("audit"), result.ID)
    /\ UNCHANGED <<symbolVars, adapterVars, engineVars, runnerVars, writerVars, otherThanServer>>

\* handler.inspectHandler
inspectHandler(run_id, q, made) ==
    /\ tcall' = ToolCall("gov_inspect", run_id, q)
    /\ IF run_id = ""
       THEN /\ tret' = ToolReturn(errorResult("run_id is required"), "")
            /\ UNCHANGED storeVars
       ELSE IF q = <<>>
       THEN /\ tret' = ToolReturn(errorResult("symbol is required"), "")
            /\ UNCHANGED storeVars
       ELSE /\ LoadOp(run_id, made)
            /\ tret' = IF sret'.err # ""
                       THEN ToolReturn(errorResult("Failed to load run"), run_id)
                       ELSE IF Len(BySymbolOf(AsRunResult(sret'.result), q)) = 0
                       THEN ToolReturn(textResult("No diagnostics found"), run_id)
                       ELSE ToolReturn(textResult("inspect"), run_id)
    /\ UNCHANGED <<symbolVars, adapterVars, engineVars, runnerVars, writerVars, otherThanServer>>

\* ------------------------------------------- LRUStore under concurrent calls
Goroutines == {"g1", "g2"}

\* the entries that can be live at once: a full cache and one being inserted;
\* 0 stands for a nil pointer
Entries == 1..(MaxCap + 1)

NoEntry == [used |-> FALSE, key |-> "", result |-> 0, prev |-> 0, next |-> 0]

\* &lruEntry{key: key, result: result} at the first free address
newEntry(s, key) == CHOOSE e \in Entries : ~s.nodes[e].used /\ \A f \in Entries : f < e => s.nodes[f].used

allocate(s, e, key, result) ==
    [s EXCEPT !.nodes[e] = [used |-> TRUE, key |-> key, result |-> result, prev |-> 0, next |-> 0]]

\* LRUStore.pushFront
listPushFront(s, e) ==
    LET linked == [s EXCEPT !.nodes[e].prev = 0, !.nodes[e].next = s.head]
        joined == IF s.head # 0 THEN [linked EXCEPT !.nodes[s.head].prev = e] ELSE linked
    IN  [joined EXCEPT !.head = e, !.tail = IF s.tail = 0 THEN e ELSE s.tail]

listRemoveKeepsTail(s, e) ==
    LET p == s.nodes[e].prev
        n == s.nodes[e].next
        before == IF p # 0 THEN [s EXCEPT !.nodes[p].next = n] ELSE [s EXCEPT !.head = n]
        after == IF n # 0 THEN [before EXCEPT !.nodes[n].prev = p] ELSE before
    IN  [after EXCEPT !.nodes[e].prev = 0, !.nodes[e].next = 0]

\* LRUStore.remove
listRemove(s, e) ==
    LET p == s.nodes[e].prev
        n == s.nodes[e].next
        before == IF p # 0 THEN [s EXCEPT !.nodes[p].next = n] ELSE [s EXCEPT !.head = n]
        after == IF n # 0 THEN [before EXCEPT !.nodes[n].prev = p] ELSE [before EXCEPT !.tail = p]
    IN  [after EXCEPT !.nodes[e].prev = 0, !.nodes[e].next = 0]

\* LRUStore.moveToFront
listMoveToFront(s, e) == IF s.head = e THEN s ELSE listPushFront(listRemove(s, e), e)

\* LRUStore.evict: the tail leaves the list, its key leaves the map, and the
\* entry, which nothing points to any more, is reclaimed
listEvict(s) ==
    IF s.tail = 0 THEN s
    ELSE LET e == s.tail
             removed == listRemove(s, e)
         IN  [removed EXCEPT !.items[s.nodes[e].key] = 0, !.nodes[e] = NoEntry]

\* len(s.items)
lenItems(s) == Cardinality({id \in RunIDs : s.items[id] # 0})

NewSharedStore(cap) ==
    [cap |-> NewLRUStore(cap).cap, head |-> 0, tail |-> 0,
     items |-> [id \in RunIDs |-> 0], nodes |-> [e \in Entries |-> NoEntry]]

NoCall == [op |-> "", id |-> "", result |-> 0, second |-> FALSE, missed |-> FALSE, raced |-> FALSE,
           promoted |-> ""]

\* what is remembered of a call that returned: a Load that promoted what the
\* backing store gave it, nothing of any other call
Remembered(c) == IF c.op = "load" /\ c.second THEN c ELSE NoCall

InFlight(g) == gpc[g] # "done"

\* a goroutine calls Save with a result (results are numbered from 1) or
\* Load; raced records that two Loads of one id are in flight together
Begin(g, o, id, result) ==
    /\ ~InFlight(g)
    /\ gpc' = [gpc EXCEPT ![g] = "lock"]
    /\ LET racing == { h \in Goroutines \ {g} : o = "load" /\ InFlight(h) /\ gop[h].op = "load" /\ gop[h].id = id }
       IN  gop' = [h \in Goroutines |->
                     IF h = g THEN [NoCall EXCEPT !.op = o, !.id = id, !.raced = racing # {},
                                                  !.result = IF o = "save" THEN result ELSE 0]
                     ELSE IF h \in racing THEN [gop[h] EXCEPT !.raced = TRUE]
                     ELSE gop[h]]
    /\ UNCHANGED <<cl, mu, backing>>
    /\ UNCHANGED <<engineVars, runnerVars, writerVars, reportVars, otherThanShared>>

\* s.mu.Lock()
LockMu(g) ==
    /\ gpc[g] = "lock"
    /\ mu = ""
    /\ mu' = g
    /\ gpc' = [gpc EXCEPT ![g] = "section"]
    /\ UNCHANGED <<cl, backing, gop>>
    /\ UNCHANGED <<engineVars, runnerVars, writerVars, reportVars, otherThanShared>>

\* the update-or-insert of Save and of Load's promotion, up to the test of
\* len(s.items) against s.cap
UpdateOrInsert(g) ==
    /\ gpc[g] = "section"
    /\ gop[g].op = "save" \/ gop[g].second
    /\ LET id == gop[g].id
       IN  IF cl.items[id] # 0
           THEN /\ cl' = listMoveToFront([cl EXCEPT !.nodes[cl.items[id]].result = gop[g].result],
                                          cl.items[id])
                /\ gop' = [gop EXCEPT ![g].promoted = "moved"]
                /\ gpc' = [gpc EXCEPT ![g] = "unlock"]
           ELSE LET e == newEntry(cl, id)
                    grown == listPushFront([allocate(cl, e, id, gop[g].result) EXCEPT !.items[id] = e], e)
                IN  /\ cl' = grown
                    /\ gop' = [gop EXCEPT ![g].promoted = "inserted"]
                    /\ gpc' = [gpc EXCEPT ![g] = IF lenItems(grown) > grown.cap THEN "evict" ELSE "unlock"]
    /\ UNCHANGED <<mu, backing>>
    /\ UNCHANGED <<engineVars, runnerVars, writerVars, reportVars, otherThanShared>>

\* s.evict() after an insertion that outgrew the cache
EvictTail(g) ==
    /\ gpc[g] = "evict"
    /\ cl' = listEvict(cl)
    /\ gpc' = [gpc EXCEPT ![g] = "unlock"]
    /\ UNCHANGED <<mu, backing, gop>>
    /\ UNCHANGED <<engineVars, runnerVars, writerVars, reportVars, otherThanShared>>

\* Load's first look at the map: a hit moves the entry to the front
Lookup(g) ==
    /\ gpc[g] = "section"
    /\ gop[g].op = "load" /\ ~gop[g].second
    /\ LET id == gop[g].id
       IN  IF cl.items[id] # 0
           THEN /\ cl' = listMoveToFront(cl, cl.items[id])
                /\ gop' = [gop EXCEPT ![g].result = cl.nodes[cl.items[id]].result]
           ELSE /\ cl' = cl
                /\ gop' = [gop EXCEPT ![g].missed = TRUE]
    /\ gpc' = [gpc EXCEPT ![g] = "unlock"]
    /\ UNCHANGED <<mu, backing>>
    /\ UNCHANGED <<engineVars, runnerVars, writerVars, reportVars, otherThanShared>>

\* s.mu.Unlock(): Save goes on to the backing store, a Load that missed to
\* the backing store's Load, every other path returns
UnlockMu(g) ==
    /\ gpc[g] = "unlock"
    /\ mu = g
    /\ mu' = ""
    /\ IF gop[g].op = "save" \/ (gop[g].missed /\ ~gop[g].second)
       THEN gpc' = [gpc EXCEPT ![g] = "back"] /\ gop' = gop
       ELSE gpc' = [gpc EXCEPT ![g] = "done"] /\ gop' = [gop EXCEPT ![g] = Remembered(gop[g])]
    /\ UNCHANGED <<cl, backing>>
    /\ UNCHANGED <<engineVars, runnerVars, writerVars, reportVars, otherThanShared>>

\* s.back.Save(result), outside the lock
BackSave(g, ok) ==
    /\ gpc[g] = "back"
    /\ gop[g].op = "save"
    /\ backing' = IF ok THEN [backing EXCEPT ![gop[g].id] = gop[g].result] ELSE backing
    /\ gop' = [gop EXCEPT ![g] = NoCall]
    /\ gpc' = [gpc EXCEPT ![g] = "done"]
    /\ UNCHANGED <<cl, mu>>
    /\ UNCHANGED <<engineVars, runnerVars, writerVars, reportVars, otherThanShared>>

\* s.back.Load(runID), outside the lock: an error returns, a result goes on
\* to the promotion
BackLoad(g) ==
    /\ gpc[g] = "back"
    /\ gop[g].op = "load"
    /\ IF backing[gop[g].id] # 0
       THEN /\ gop' = [gop EXCEPT ![g].second = TRUE, ![g].result = backing[gop[g].id]]
            /\ gpc' = [gpc EXCEPT ![g] = "lock"]
       ELSE /\ gop' = [gop EXCEPT ![g] = NoCall]
            /\ gpc' = [gpc EXCEPT ![g] = "done"]
    /\ UNCHANGED <<cl, mu, backing>>
    /\ UNCHANGED <<engineVars, runnerVars, writerVars, reportVars, otherThanShared>>

SharedIdle(cap) ==
    /\ cl = NewSharedStore(cap)
    /\ mu = ""
    /\ backing = [id \in RunIDs |-> 0]
    /\ gpc = [g \in Goroutines |-> "done"]
    /\ gop = [g \in Goroutines |-> NoCall]

\* ------------------------------------------------------- specifications
RunnerIdle(r) ==
    /\ runner = r
    /\ rpc = "idle"
    /\ argv = <<>>
    /\ cwd = EmptyString
    /\ cmd = None
    /\ spawned = FALSE
    /\ child = Child("none", 0)
    /\ stream = [Stdout |-> <<>>, Stderr |-> <<>>]
    /\ wrote = None
    /\ runRet = None

WriterIdle(limit) ==
    /\ lw = limitWriter(limit)
    /\ written = <<>>

StoreIdle(cap) ==
    /\ lru = NewLRUStore(cap)
    /\ disk = [dir |-> "", files |-> NoFiles]
    /\ saved = [id \in RunIDs |-> None]
    /\ sop = None
    /\ sret = None
    /\ accessed = <<>>

AdapterIdle(data) ==
    /\ tdata = data
    /\ tsum = None

SymbolIdleWith(s, r) ==
    /\ sym = s
    /\ split = None
    /\ symResult = r
    /\ symOut = <<>>

SymbolIdle(s) == SymbolIdleWith(s, NewRunResult(RunID, "check"))

ResolveIdle(e, pkgs) ==
    /\ rpEngine = e
    /\ packages = pkgs
    /\ rpIdx = 0
    /\ rpResolved = <<>>
    /\ rpRet = [returned |-> FALSE, value |-> <<>>]

DefaultEngine == [Workspace |-> Path(TRUE, <<>>), RepoRoot |-> EmptyString]

MiscIdle == ResolveIdle(DefaultEngine, <<>>) /\ GoplsIdle(FALSE) /\ RootsIdle /\ ServerIdle /\ SharedIdle(1)

ReportIdle ==
    /\ StoreIdle(1)
    /\ AdapterIdle(<<>>)
    /\ SymbolIdle(<<>>)
    /\ MiscIdle

Workspaces == {Path(TRUE, <<>>), Path(TRUE, <<<<"a">>>>), Path(TRUE, <<<<"a">>, <<"b">>>>)}

DefaultRunner == [Workspace |-> Path(TRUE, <<>>), MaxOutput |-> 1]

EngineIdle(checkSteps, auditSteps) ==
    /\ config = [CheckSteps |-> checkSteps, AuditSteps |-> auditSteps]
    /\ op = "none"
    /\ pc = "idle"
    /\ fix = FALSE
    /\ idx = 1
    /\ results = <<>>
    /\ failedIdx = -1
    /\ rr = None
    /\ calls = {}
    /\ outcomes = <<>>
    /\ fixEnv = [missing |-> FALSE, failed |-> FALSE, listed |-> FALSE]
    /\ ret = None
    /\ ctx = [done |-> FALSE, at |-> 0]

InitEngine(checkSteps, auditSteps) ==
    /\ EngineIdle(checkSteps, auditSteps)
    /\ RunnerIdle(DefaultRunner)
    /\ WriterIdle(DefaultRunner.MaxOutput)
    /\ ReportIdle

InitCheck == \E cs \in SeqsUpTo(CheckStepNames, MaxSteps) : InitEngine(cs, <<>>)

NextCheck ==
    \/ \E f \in BOOLEAN : CheckBegin(f)
    \/ CheckTest
    \/ CheckLint
    \/ CheckStaticcheck
    \/ CheckUnknown

SpecCheck == InitCheck /\ [][NextCheck]_vars

InitAudit == \E as \in SeqsUpTo(AuditStepNames, MaxSteps) : InitEngine(<<>>, as)

NextAudit ==
    \/ AuditBegin
    \/ AuditCoverage
    \/ AuditComplexity
    \/ AuditDeadcode
    \/ AuditDupl
    \/ AuditVulncheck
    \/ AuditUnknown

SpecAudit == InitAudit /\ [][NextAudit]_vars

\* An engine on which either pipeline is invoked once: Check where the check
\* steps were drawn, Audit where the audit steps were drawn (a pipeline reads
\* its own list of steps only).
InitPipeline == InitCheck \/ InitAudit

NextPipeline ==
    \/ \E f \in BOOLEAN : config.AuditSteps = <<>> /\ CheckBegin(f)
    \/ CheckTest
    \/ CheckLint
    \/ CheckStaticcheck
    \/ CheckUnknown
    \/ config.CheckSteps = <<>> /\ AuditBegin
    \/ AuditCoverage
    \/ AuditComplexity
    \/ AuditDeadcode
    \/ AuditDupl
    \/ AuditVulncheck
    \/ AuditUnknown

SpecPipeline == InitPipeline /\ [][NextPipeline]_vars

\* the same with a caller that may cancel the context
InitCancel == InitPipeline

NextCancel ==
    \/ NextPipeline
    \/ Cancel

SpecCancel == InitCancel /\ [][NextCancel]_vars

InitRunner ==
    /\ EngineIdle(<<>>, <<>>)
    /\ \E ws \in Workspaces, limit \in 1..MaxLimit : RunnerIdle([Workspace |-> ws, MaxOutput |-> limit])
    /\ WriterIdle(DefaultRunner.MaxOutput)
    /\ ReportIdle

NextRunner ==
    \/ \E av \in Argvs, dir \in Cwds : RunStart(av, dir)
    \/ \E p \in ChildChunks : WriteStdout(p)
    \/ \E p \in ChildChunks : WriteStderr(p)
    \/ \E code \in ExitCodes : RunExit(code)
    \/ RunTimeout

SpecRunner == InitRunner /\ [][NextRunner]_vars

InitWriter ==
    /\ EngineIdle(<<>>, <<>>)
    /\ RunnerIdle(DefaultRunner)
    /\ \E limit \in 0..MaxLimit : WriterIdle(limit)
    /\ ReportIdle

NextWriter == \E p \in SeqsUpTo(Bytes, MaxChunk) : Write(p)

SpecWriter == InitWriter /\ [][NextWriter]_vars

\* the records handed to Save: a check run whose audit list is empty but not
\* nil, and an audit run carrying a check list
SavedResults ==
    UNION {{StoredResult(id, "check", Slice(FALSE, <<"issue">>), Slice(FALSE, <<>>)),
            StoredResult(id, "audit", Slice(FALSE, <<"issue">>), NilSlice)} : id \in RunIDs}

InitStore ==
    /\ EngineIdle(<<>>, <<>>)
    /\ RunnerIdle(DefaultRunner)
    /\ WriterIdle(DefaultRunner.MaxOutput)
    /\ \E cap \in 0..MaxCap : StoreIdle(cap)
    /\ AdapterIdle(<<>>)
    /\ SymbolIdle(<<>>)
    /\ MiscIdle

NextStore ==
    \/ \E r \in SavedResults, env \in {"ok", "mkdir", "write"} : Save(r, env)
    \/ \E id \in RunIDs, made \in BOOLEAN : Load(id, made)

SpecStore == InitStore /\ [][NextStore]_vars

\* the runs inspected: test failures TestA ("a") of package a and of package
\* a/a, a lint issue of package a, a coverage entry of function a.a of package a
SymResults ==
    { [NewRunResult(RunID, "check") EXCEPT !.TestFailures = tf, !.LintIssues = li, !.Coverage = cv]
      : tf \in { <<>>,
                 <<[Package |-> <<"a">>, Test |-> <<"a">>, Message |-> "fail"]>>,
                 <<[Package |-> <<"a", "/", "a">>, Test |-> <<"a">>, Message |-> "fail"],
                   [Package |-> <<"a">>, Test |-> <<"a">>, Message |-> "fail"]>> },
        li \in { <<>>, <<[Package |-> <<"a">>, Message |-> "lint"]>> },
        cv \in { <<>>, <<[Package |-> <<"a">>, Function |-> <<"a", ".", "a">>, Message |-> "cover"]>> } }

InitSymbol ==
    /\ EngineIdle(<<>>, <<>>)
    /\ RunnerIdle(DefaultRunner)
    /\ WriterIdle(DefaultRunner.MaxOutput)
    /\ StoreIdle(1)
    /\ AdapterIdle(<<>>)
    /\ \E s \in SeqsUpTo(SymChars, MaxSym), r \in SymResults : SymbolIdleWith(s, r)
    /\ MiscIdle

NextSymbol == BySymbol

SpecSymbol == InitSymbol /\ [][NextSymbol]_vars

\* everything but the machine a specification is about
OthersIdle ==
    /\ EngineIdle(<<>>, <<>>)
    /\ RunnerIdle(DefaultRunner)
    /\ WriterIdle(DefaultRunner.MaxOutput)
    /\ StoreIdle(1)
    /\ AdapterIdle(<<>>)
    /\ SymbolIdle(<<>>)

Engines ==
    { [Workspace |-> Path(TRUE, <<<<"a">>>>), RepoRoot |-> Path(TRUE, <<<<"a">>>>)],
      [Workspace |-> Path(TRUE, <<<<"a">>, <<"b">>>>), RepoRoot |-> Path(TRUE, <<<<"a">>>>)],
      [Workspace |-> Path(TRUE, <<<<"a">>>>), RepoRoot |-> EmptyString] }

\* "./...", "a/b", "/a/b", "/b", "/a", "/a/..a", "/a/..."
PackageArgs ==
    { Path(FALSE, <<Dot, Dots>>), Path(FALSE, <<<<"a">>, <<"b">>>>),
      Path(TRUE, <<<<"a">>, <<"b">>>>), Path(TRUE, <<<<"b">>>>), Path(TRUE, <<<<"a">>>>),
      Path(TRUE, <<<<"a">>, <<".", ".", "a">>>>), Path(TRUE, <<<<"a">>, Dots>>) }

InitResolve ==
    /\ OthersIdle
    /\ GoplsIdle(FALSE)
    /\ RootsIdle
    /\ ServerIdle
    /\ SharedIdle(1)
    /\ \E e \in Engines, pkgs \in SeqsUpTo(PackageArgs, MaxPkgs) : ResolveIdle(e, pkgs)

NextResolve ==
    \/ ResolveBegin
    \/ ResolveNext
    \/ ResolveReturn

SpecResolve == InitResolve /\ [][NextResolve]_vars

InitGopls ==
    /\ OthersIdle
    /\ ResolveIdle(DefaultEngine, <<>>)
    /\ RootsIdle
    /\ ServerIdle
    /\ SharedIdle(1)
    /\ \E attached \in BOOLEAN : GoplsIdle(attached)

NextGopls ==
    \/ registerGoplsTools
    \/ \E d \in goplsTools, raw \in RawArguments, up \in Upstreams : makeGoplsHandler(d, raw, up)

SpecGopls == InitGopls /\ [][NextGopls]_vars

InitRoots ==
    /\ OthersIdle
    /\ ResolveIdle(DefaultEngine, <<>>)
    /\ GoplsIdle(FALSE)
    /\ RootsIdle
    /\ ServerIdle
    /\ SharedIdle(1)

NextRoots == Negotiate

SpecRoots == InitRoots /\ [][NextRoots]_vars

\* one server under either transport, up to two client sessions
InitSessions ==
    /\ OthersIdle
    /\ ResolveIdle(DefaultEngine, <<>>)
    /\ GoplsIdle(FALSE)
    /\ \E tr \in Transports : SessionsIdle(tr)
    /\ hRunner = StartupRunner
    /\ hEngine = StartupEngine
    /\ neg = [called |-> FALSE, listed |-> [err |-> TRUE, Roots |-> <<>>],
              loaded |-> [err |-> TRUE, Config |-> RawConfig(0, 0), RepoRoot |-> ""],
              runner |-> StartupRunner, engine |-> StartupEngine]
    /\ ServerIdle
    /\ SharedIdle(1)

NextSessions ==
    \/ \E sid \in Sessions : Connect(sid)
    \/ \E sid \in Sessions : \E listed \in Listings :
           \E loaded \in LoadResults(firstRoot(listed).workspace) :
               InitializedHandler(sid, listed, loaded)
    \/ \E sid \in Sessions : \E tool \in HandlerTools : CallTool(sid, tool)

SpecSessions == InitSessions /\ [][NextSessions]_vars

\* parseTestOutput on every stream of up to MaxLines lines
MaxLines == 3

InitParse ==
    /\ EngineIdle(<<>>, <<>>)
    /\ RunnerIdle(DefaultRunner)
    /\ WriterIdle(DefaultRunner.MaxOutput)
    /\ StoreIdle(1)
    /\ SymbolIdle(<<>>)
    /\ \E data \in SeqsUpTo(TestEvents, MaxLines) : AdapterIdle(data)
    /\ MiscIdle

ParseTest ==
    /\ tsum = None
    /\ \E s \in parseTestOutput(tdata) : tsum' = s
    /\ UNCHANGED <<tdata, storeVars, symbolVars, engineVars, runnerVars, writerVars, miscVars>>

NextParse == ParseTest

SpecParse == InitParse /\ [][NextParse]_vars

\* what the engine hands the handlers: a check run with a lint issue of
\* package a, an audit run with a vulnerability of package b, a check run with
\* nothing to report
ServerResults ==
    { StoredResult("r1", "check", Slice(FALSE, <<[Package |-> <<"a">>, Message |-> "lint"]>>), NilSlice),
      StoredResult("r2", "audit", NilSlice,
                   Slice(FALSE, <<[AffectedPackage |-> <<"b">>, Summary |-> "vuln"]>>)),
      StoredResult("r3", "check", NilSlice, NilSlice) }

RunIDArgs == RunIDs \cup {""}

SymbolArgs == {<<>>, <<"a">>, <<"b">>, <<"a", ".", "a">>}

InitServer ==
    /\ EngineIdle(<<>>, <<>>)
    /\ RunnerIdle(DefaultRunner)
    /\ WriterIdle(DefaultRunner.MaxOutput)
    /\ \E cap \in 1..MaxCap : StoreIdle(cap)
    /\ AdapterIdle(<<>>)
    /\ SymbolIdle(<<>>)
    /\ MiscIdle

NextServer ==
    \/ \E ok \in BOOLEAN, result \in ServerResults, ff \in BOOLEAN, env \in {"ok", "mkdir", "write"} :
            checkHandler(ok, result, ff, env)
    \/ \E ok \in BOOLEAN, result \in ServerResults, env \in {"ok", "mkdir", "write"} :
            auditHandler(ok, result, env)
    \/ \E run_id \in RunIDArgs, q \in SymbolArgs, made \in BOOLEAN : inspectHandler(run_id, q, made)

SpecServer == InitServer /\ [][NextServer]_vars

InitShared ==
    /\ OthersIdle
    /\ ResolveIdle(DefaultEngine, <<>>)
    /\ GoplsIdle(FALSE)
    /\ RootsIdle
    /\ ServerIdle
    /\ \E cap \in 0..MaxCap : SharedIdle(cap)

NextShared ==
    \E g \in Goroutines :
        \/ \E o \in {"save", "load"}, id \in RunIDs : Begin(g, o, id, 1)
        \/ LockMu(g)
        \/ UpdateOrInsert(g)
        \/ EvictTail(g)
        \/ Lookup(g)
        \/ UnlockMu(g)
        \/ \E ok \in BOOLEAN : BackSave(g, ok)
        \/ BackLoad(g)

SpecShared == InitShared /\ [][NextShared]_vars

\* two goroutines on a cache of one entry, with two ids and successive
\* results of each; the backing store's writes succeed
MaxResults == 2

RaceIDs == {"r1", "r2"}

InitRace ==
    /\ OthersIdle
    /\ ResolveIdle(DefaultEngine, <<>>)
    /\ GoplsIdle(FALSE)
    /\ RootsIdle
    /\ ServerIdle
    /\ SharedIdle(1)

NextRace ==
    \E g \in Goroutines :
        \/ \E o \in {"save", "load"}, id \in RaceIDs, result \in 1..MaxResults : Begin(g, o, id, result)
        \/ LockMu(g)
        \/ UpdateOrInsert(g)
        \/ EvictTail(g)
        \/ Lookup(g)
        \/ UnlockMu(g)
        \/ BackSave(g, TRUE)
        \/ BackLoad(g)

SpecRace == InitRace /\ [][NextRace]_vars

\* ================================================================ claims
CheckDone == op = "check" /\ pc = "done"

AuditDone == op = "audit" /\ pc = "done"

Stopped == {"fail", "unavailable"}

KnownCheckSteps == {"test", "lint", "staticcheck"}

KnownAuditSteps == {"coverage", "complexity", "deadcode", "dupl", "vulncheck"}

ResolvedAuditSteps == {"complexity", "deadcode", "dupl", "vulncheck"}

CalledAt(k) == \E c \in calls : c.at = k

\* C1: during and after Check, every step listed after a step with status fail
\* or unavailable has status skipped, and no ResolveTool or Runner.Run call was
\* made for it.
C1_LaterStepsSkipped ==
    op = "check" =>
        \A k \in 1..Len(results) :
            results[k].Status \in Stopped =>
                \A j \in (k + 1)..Len(results) : results[j].Status = "skipped" /\ ~CalledAt(j)

C1_Witness ==
    /\ CheckDone
    /\ Len(results) = 3
    /\ results[1].Status = "pass"
    /\ results[2].Status = "fail"
    /\ results[3].Name = "staticcheck"
    /\ results[3].Status = "skipped"
    /\ CalledAt(2)

NonPass(steps) == {k \in 1..Len(steps) : steps[k].Status # "pass"}

\* C2 (as claimed): in the result of Check, failed_index >= 0 implies that
\* exactly one entry of the steps vector has a status other than pass.
C2_Original == CheckDone /\ ret.FailedIdx >= 0 => Cardinality(NonPass(ret.Steps)) = 1

\* C2 (amended): in the result of Check, failed_index >= 0 implies that exactly
\* one entry of the steps vector has a status other than pass and skipped, the
\* entry at failed_index.
C2_ExactlyOneStopped ==
    CheckDone /\ ret.FailedIdx >= 0 =>
        {k \in 1..Len(ret.Steps) : ret.Steps[k].Status \notin {"pass", "skipped"}} = {ret.FailedIdx + 1}

C2_Witness ==
    /\ CheckDone
    /\ ret.FailedIdx = 0
    /\ Len(ret.Steps) = 2
    /\ ret.Steps[1].Status = "fail"
    /\ ret.Steps[2].Status = "skipped"

StepsAsConfigured(steps) ==
    /\ Len(steps) = Len(CheckSteps(config))
    /\ \A k \in 1..Len(steps) : steps[k].Name = CheckSteps(config)[k]

FirstStopped(steps, f) ==
    /\ f + 1 \in 1..Len(steps)
    /\ steps[f + 1].Status \in Stopped
    /\ \A k \in 1..f : steps[k].Status = "pass"

\* C3 (as claimed): Check returns one steps entry per configured step in the
\* configured order; failed_index = -1 exactly when every step has status pass;
\* otherwise, unless it is the format sentinel, failed_index is the index of the
\* first step with status fail or unavailable and every step before it passed.
C3_Original ==
    CheckDone =>
        /\ StepsAsConfigured(ret.Steps)
        /\ (ret.FailedIdx = -1 <=> \A k \in 1..Len(ret.Steps) : ret.Steps[k].Status = "pass")
        /\ (ret.FailedIdx \notin {-1, -2} => FirstStopped(ret.Steps, ret.FailedIdx))

\* C3 (amended): unless Check returns the format sentinel, in which case the
\* steps vector is empty, the above holds.
C3_StepsAndFailedIndex ==
    CheckDone =>
        IF ret.FailedIdx = -2 THEN ret.Steps = <<>>
        ELSE /\ StepsAsConfigured(ret.Steps)
             /\ (ret.FailedIdx = -1 <=> \A k \in 1..Len(ret.Steps) : ret.Steps[k].Status = "pass")
             /\ (ret.FailedIdx # -1 => FirstStopped(ret.Steps, ret.FailedIdx))

C3_Witness ==
    /\ CheckDone
    /\ ret.FailedIdx = 1
    /\ config.CheckSteps = <<"lint", "test">>
    /\ ret.Steps[2].Status = "fail"

\* the status the step table gives a check step from what happened in it
ExpectedCheckStatus(step, e) ==
    IF step \notin KnownCheckSteps THEN "fail"
    ELSE IF ~e.resolved THEN "unavailable"
    ELSE IF ~e.launched \/ e.failing THEN "fail"
    ELSE "pass"

\* C4: Check returns failed_index = -2 exactly when fix is false and the
\* list-mode run of the formatter named a file, and then no step was executed;
\* with fix = true the result is never the sentinel and every status and the
\* failed index follow from the steps' own outcomes, whatever the tools of the
\* fix phase did.
C4_FormatSentinel ==
    CheckDone =>
        /\ (ret.FailedIdx = -2 <=> ~fix /\ fixEnv.listed)
        /\ (ret.FailedIdx = -2 => ret.Steps = <<>> /\ outcomes = <<>> /\ \A c \in calls : c.at = 0)
        /\ (fix =>
              /\ \A k \in 1..Len(outcomes) :
                    ret.Steps[k].Status = ExpectedCheckStatus(CheckSteps(config)[k], outcomes[k])
              /\ \A k \in (Len(outcomes) + 1)..Len(ret.Steps) : ret.Steps[k].Status = "skipped"
              /\ (ret.FailedIdx = -1 <=> \A k \in 1..Len(ret.Steps) : ret.Steps[k].Status = "pass"))

C4_Witness == CheckDone /\ ~fix /\ ret.FailedIdx = -2 /\ Len(rr.FormatIssues) = 1

C4_WitnessFix ==
    /\ CheckDone /\ fix /\ fixEnv.missing /\ fixEnv.failed
    /\ ret.FailedIdx = -1
    /\ Len(ret.Steps) = 3

\* C5: when Audit returns, every configured step was executed (each has an
\* outcome, and each step that resolves a tool made its calls) and none has
\* status skipped.
C5_AuditRunsEveryStep ==
    AuditDone =>
        /\ Len(ret.Steps) = Len(AuditSteps(config))
        /\ Len(outcomes) = Len(AuditSteps(config))
        /\ \A k \in 1..Len(ret.Steps) :
              /\ ret.Steps[k].Status # "skipped"
              /\ (AuditSteps(config)[k] \in ResolvedAuditSteps => CalledAt(k))

C5_Witness ==
    /\ AuditDone
    /\ Len(ret.Steps) = 5
    /\ ret.Steps[1].Status = "error"
    /\ ret.Steps[2].Status = "unavailable"
    /\ ret.Steps[5].Status = "done"

\* the status Audit gives a step from what happened in it
ExpectedAuditStatus(step, e) ==
    IF step \notin KnownAuditSteps THEN "error"
    ELSE IF ~e.resolved THEN "unavailable"
    ELSE IF ~e.launched THEN "error"
    ELSE IF step = "coverage" /\ e.exit # 0 THEN "error"
    ELSE "done"

\* C6: in Audit a step whose tool is not resolved is unavailable, one whose
\* tool does not launch or errors is error, an unknown step is error with
\* detail "unknown step: <name>", a step that completes is done; the status of
\* a step depends on its own outcome only, whatever happened before it.
C6_AuditStatuses ==
    op = "audit" =>
        \A k \in 1..Len(outcomes) :
            /\ results[k].Status = ExpectedAuditStatus(AuditSteps(config)[k], outcomes[k])
            /\ (AuditSteps(config)[k] \notin KnownAuditSteps =>
                   results[k].Detail = <<"unknown step: ", AuditSteps(config)[k]>>)

C6_Witness ==
    /\ AuditDone
    /\ config.AuditSteps = <<"complexity", "coverage">>
    /\ ~outcomes[1].resolved
    /\ ret.Steps[1].Status = "unavailable"
    /\ ret.Steps[2].Status = "done"

C6_WitnessUnknown ==
    /\ AuditDone
    /\ config.AuditSteps = <<"bogus", "dupl">>
    /\ ret.Steps[1].Status = "error"
    /\ ret.Steps[2].Status = "done"

\* C7: in Check a lint or staticcheck step whose tool is not resolved gets
\* status unavailable, failed_index is its index and the pipeline has halted
\* there; the test step never gets status unavailable.
C7_UnavailableHalts ==
    op = "check" =>
        \A k \in 1..Len(results) :
            /\ (k <= Len(outcomes) /\ results[k].Name \in {"lint", "staticcheck"} /\ ~outcomes[k].resolved =>
                   /\ results[k].Status = "unavailable"
                   /\ pc = "done"
                   /\ ret.FailedIdx = k - 1
                   /\ Len(outcomes) = k)
            /\ (results[k].Name = "test" => results[k].Status # "unavailable")

C7_Witness ==
    /\ CheckDone
    /\ config.CheckSteps = <<"test", "staticcheck">>
    /\ Len(outcomes) = 2
    /\ ~outcomes[2].resolved
    /\ ret.Steps[2].Status = "unavailable"
    /\ ret.FailedIdx = 1

\* C8: in Check a step that is not test, lint or staticcheck gets status fail
\* with an output that starts with "unknown step", failed_index is its index,
\* the steps after it stay skipped, and the steps before it were executed and
\* passed.
C8_UnknownStep ==
    op = "check" =>
        \A k \in 1..Len(outcomes) :
            results[k].Name \notin KnownCheckSteps =>
                /\ results[k].Status = "fail"
                /\ results[k].Output # <<>> /\ results[k].Output[1] = "unknown step: "
                /\ pc = "done" /\ ret.FailedIdx = k - 1
                /\ \A j \in (k + 1)..Len(results) : results[j].Status = "skipped"
                /\ \A j \in 1..(k - 1) :
                      /\ results[j].Status = ExpectedCheckStatus(results[j].Name, outcomes[j])
                      /\ results[j].Status = "pass"
                      /\ CalledAt(j)

C8_Witness ==
    /\ CheckDone
    /\ config.CheckSteps = <<"test", "bogus">>
    /\ Len(ret.Steps) = 2
    /\ ret.Steps[1].Status = "pass"
    /\ ret.FailedIdx = 1
    /\ ret.Steps[2].Output = <<"unknown step: ", "bogus">>

Inside(ws, dir) == dir.abs /\ Len(dir.elems) >= Len(ws.elems) /\ Take(dir.elems, Len(ws.elems)) = ws.elems

\* the directory a cwd names, seen from the workspace
Resolved(ws, dir) ==
    IF dir = EmptyString THEN ws
    ELSE IF dir.abs THEN Clean(dir)
    ELSE Clean(Path(TRUE, ws.elems \o dir.elems))

CwdOutside == rpc # "idle" /\ ~Inside(runner.Workspace, Resolved(runner.Workspace, cwd))

C9_WitnessAbsolute ==
    /\ rpc = "returned"
    /\ runner.Workspace = Path(TRUE, <<<<"a">>>>)
    /\ cwd = Path(TRUE, <<<<"a">>, DotDot>>)
    /\ argv # <<>>
    /\ runRet.err = "outside workspace"

\* C10: after any sequence of Writes to a limitWriter, the last Write reported
\* all of its len(p) bytes and no error, and the buffer holds the first
\* min(total, limit) bytes of everything written, so at most limit bytes.
C10_WriterCaps ==
    /\ wrote # None => wrote.n = wrote.len /\ wrote.err = ""
    /\ lw.buf = Take(written, Min(Len(written), lw.limit))
    /\ Len(lw.buf) <= lw.limit

C10_Witness ==
    /\ lw.limit = 2
    /\ written = <<"x", "y", "y", "x">>
    /\ lw.buf = <<"x", "y">>
    /\ wrote = [len |-> 2, n |-> 2, err |-> ""]

\* the same for the two streams of a running or finished subprocess
RunnerBuffersCapped ==
    /\ wrote # None => wrote.n = wrote.len /\ wrote.err = ""
    /\ cmd # None =>
        /\ cmd.Stdout.buf = Take(stream.Stdout, Min(Len(stream.Stdout), runner.MaxOutput))
        /\ cmd.Stderr.buf = Take(stream.Stderr, Min(Len(stream.Stderr), runner.MaxOutput))
    /\ rpc = "returned" /\ runRet.err = "" =>
        /\ runRet.result.Stdout = cmd.Stdout.buf /\ Len(runRet.result.Stdout) <= runner.MaxOutput
        /\ runRet.result.Stderr = cmd.Stderr.buf /\ Len(runRet.result.Stderr) <= runner.MaxOutput

Returned == rpc = "returned"

ReturnedResult == Returned /\ runRet.err = ""

C11_WitnessBelowCap ==
    /\ ReturnedResult
    /\ runner.MaxOutput = 2
    /\ stream.Stdout = <<"x">>
    /\ stream.Stderr = <<"x">>
    /\ ~runRet.result.Truncated

\* C12 (as claimed): when the deadline expires while the subprocess runs, Run
\* returns an error and no Result, so the output captured so far is not
\* returned.
C12_TimeoutReturnsError ==
    Returned /\ child.state = "killed" => runRet.result = None /\ runRet.err # ""

\* the state C12 is about: a killed subprocess whose partial output is returned
C12_PartialOutputReturned ==
    /\ ReturnedResult
    /\ child.state = "killed"
    /\ runRet.result.ExitCode = -1
    /\ runRet.result.Stdout = <<"x">>

NotStarted == argv # <<>> /\ cmd # None /\ ~spawned

CwdDotDotName ==
    LET ws == runner.Workspace
        dir == Resolved(ws, cwd)
    IN  /\ rpc # "idle"
        /\ Inside(ws, dir)
        /\ Len(dir.elems) > Len(ws.elems)
        /\ HasPrefix(dir.elems[Len(ws.elems) + 1], DotDot)

C13_WitnessNotStarted == Returned /\ NotStarted /\ runRet.err = "executing"

\* C14 (as claimed): once the context is cancelled between two steps of Check
\* or Audit, no later step is attempted: none gets an outcome and no
\* ResolveTool or Runner.Run call is made for it.
C14_CancelHalts ==
    ctx.done /\ ctx.at >= 1 =>
        /\ Len(outcomes) <= ctx.at
        /\ \A c \in calls : c.at <= ctx.at

\* the state C14 is about: Audit runs a step after the cancellation
C14_LaterStepAttempted ==
    /\ op = "audit"
    /\ ctx = [done |-> TRUE, at |-> 1]
    /\ Len(outcomes) = 2
    /\ CalledAt(2)
    /\ results[2].Status = "error"

C14_LaterCheckStepAttempted ==
    /\ op = "check"
    /\ ctx = [done |-> TRUE, at |-> 1]
    /\ Len(outcomes) = 2
    /\ CalledAt(2)
    /\ results[2].Status = "fail"

\* C15 (as claimed): when the context was cancelled during Check or Audit, the
\* engine returns an error and no RunResult.
C15_CancelReturnsError ==
    pc = "done" /\ ctx.done => ret.Err # "" /\ ret.RunResult = None

\* the state C15 is about: Audit returns, without error, the records of the
\* step that finished before the cancellation
C15_PartialRecordsReturned ==
    /\ AuditDone
    /\ ctx = [done |-> TRUE, at |-> 1]
    /\ ret.Err = ""
    /\ Len(ret.RunResult.Complexity) = 1
    /\ ret.Steps[2].Status = "error"

CheckLists == {"FormatIssues", "BuildErrors", "TestFailures", "LintIssues", "StaticIssues"}

AuditLists == {"Coverage", "Complexity", "DeadFuncs", "Duplicates", "Vulns"}

\* C18: the RunResult of Check has kind check and empty audit lists at every
\* moment, the RunResult of Audit has kind audit, empty check lists and
\* auto_fixes = 0, and the returned RunResult is the one built.
C18_KindMatchesLists ==
    /\ op = "check" => rr.Kind = "check" /\ \A l \in AuditLists : rr[l] = <<>>
    /\ op = "audit" => rr.Kind = "audit" /\ rr.AutoFixes = 0 /\ \A l \in CheckLists : rr[l] = <<>>
    /\ pc = "done" => ret.RunResult = rr

C18_Witness ==
    /\ CheckDone
    /\ ret.RunResult.Kind = "check"
    /\ Len(ret.RunResult.LintIssues) = 1

C18_WitnessAudit ==
    /\ AuditDone
    /\ ret.RunResult.Kind = "audit"
    /\ Len(ret.RunResult.Vulns) = 1

LoadOf(id) == sop # None /\ sop.op = "load" /\ sop.id = id

JSONEqual(a, b) == RoundTrip(a) = RoundTrip(b)

C16_WitnessDisk ==
    /\ sop # None /\ sop.op = "load" /\ ~sop.hit
    /\ saved[sop.id] # None /\ saved[sop.id].ok
    /\ sret.err = ""
    /\ sret.result # saved[sop.id].result

\* C17: a Load of an id that was saved and is no longer in the cache succeeds
\* from disk and puts the id at the head of the cache, the tail leaving the
\* cache when it was full.
C17_EvictedStillLoadable ==
    [][\A id \in RunIDs :
          /\ sop' # None /\ sop'.op = "load" /\ sop'.id = id
          /\ id \notin Cached(lru)
          /\ saved[id] # None /\ saved[id].stored # None
          => /\ sret'.err = ""
             /\ sret'.result = RoundTrip(saved[id].stored)
             /\ id \in Cached(lru') /\ lru'.items[id] = sret'.result
             /\ lru'.order = <<id>> \o (IF Len(lru.order) = lru.cap
                                        THEN Take(lru.order, lru.cap - 1)
                                        ELSE lru.order)]_vars

\* more than cap ids were saved, the loaded one had been evicted, and its
\* promotion evicted the least recently used of a full cache of two
C17_Witness ==
    /\ sop # None /\ sop.op = "load" /\ ~sop.hit
    /\ sret.err = ""
    /\ \A id \in RunIDs : saved[id] # None /\ saved[id].ok
    /\ lru.cap = 2
    /\ Len(lru.order) = 2
    /\ lru.order[1] = sop.id

Mismatched(r) ==
    \/ r.Kind = "check" /\ Len(r.Vulns.elems) > 0
    \/ r.Kind = "audit" /\ Len(r.LintIssues.elems) > 0

\* C19: a Load never returns a RunResult whose kind does not match its
\* populated lists: it returns an error for such a stored record.
C19_MismatchIsError ==
    sop # None /\ sop.op = "load" /\ sret.err = "" => ~Mismatched(sret.result)

\* a mismatched record read from disk and returned, which Expect accepts too
C19_MismatchLoaded ==
    /\ sop # None /\ sop.op = "load" /\ ~sop.hit
    /\ sret.err = ""
    /\ Mismatched(sret.result)
    /\ Expect(sret.result, sret.result.Kind) = ""

join(p, n) == IF n = <<>> THEN p ELSE p \o <<".">> \o n

\* C20: for every string s, the package and name splitSymbol(s) returns join back to s.
C20_SplitJoin ==
    split # None => join(split.pkg, split.name) = sym

\* a split with a name, which joins back
C20_SplitWithName ==
    /\ split # None
    /\ split.name # <<>>
    /\ join(split.pkg, split.name) = sym

\* C28: every coverage record has a percent within [0, 100]; a line whose
\* percentage is outside that range produces no record.
C28_PercentInRange ==
    op = "audit" => \A k \in 1..Len(rr.Coverage) :
                        rr.Coverage[k].Coverage >= 0 /\ rr.Coverage[k].Coverage <= FullPercent

\* a finished audit carrying a coverage record within the range
C28_RecordInRange ==
    /\ AuditDone
    /\ Len(ret.RunResult.Coverage) = 1
    /\ ret.RunResult.Coverage[1].Coverage <= FullPercent

\* a step whose tool ran to completion with a non-zero exit code and in whose
\* output the adapter recognised no finding
ExitedNonZeroNoFindings(k) ==
    /\ outcomes[k].launched
    /\ outcomes[k].exit # 0
    /\ outcomes[k].findings = 0
    /\ ~outcomes[k].failing

\* C22: such a step is reported as a failure (check: fail, audit: error),
\* never as pass or done.
C22_NonZeroExitIsFailure ==
    \A k \in 1..Len(outcomes) :
        ExitedNonZeroNoFindings(k) =>
            /\ op = "check" => results[k].Status = "fail"
            /\ op = "audit" => results[k].Status = "error"

\* golangci-lint exits with a non-zero code, prints nothing the adapter
\* recognises, and the lint step passes
C22_NonZeroExitPasses ==
    /\ CheckDone
    /\ Len(outcomes) >= 1
    /\ ret.Steps[1].Name = "lint"
    /\ ExitedNonZeroNoFindings(1)
    /\ ret.Steps[1].Status = "pass"

RpBase == IF rpEngine.RepoRoot = EmptyString THEN rpEngine.Workspace ELSE rpEngine.RepoRoot

Dropped(p) == IsAbs(p) /\ ~Inside(Clean(RpBase), Clean(p))

\* the inputs that are not absolute, in their order, as written
RECURSIVE PassedThrough(_)
PassedThrough(pkgs) ==
    IF pkgs = <<>> THEN <<>>
    ELSE (IF IsAbs(Head(pkgs)) THEN <<>> ELSE <<RawString(Head(pkgs))>>) \o PassedThrough(Tail(pkgs))

\* C23: ResolvePackages returns ["./..."] for an empty input and never an empty
\* list; an absolute input outside the repository root (the workspace when the
\* root is empty) adds nothing, any other input adds at most one entry at the
\* end, an input that is not absolute adds itself unchanged; and ["./..."] is
\* returned when nothing was kept.
C23_ResolvePackages ==
    /\ [](rpRet.returned =>
            /\ rpRet.value # <<>>
            /\ Len(packages) = 0 => rpRet.value = DefaultPackages
            /\ rpRet.value = IF rpResolved = <<>> THEN DefaultPackages ELSE rpResolved
            /\ SelectSeq(rpRet.value, LAMBDA x : x \in Range(PassedThrough(packages)))
                    = PassedThrough(packages)
               \/ PassedThrough(packages) = <<>>)
    /\ [][rpIdx' = rpIdx + 1 /\ rpIdx >= 1 =>
            LET p == packages[rpIdx]
            IN  /\ Dropped(p) => rpResolved' = rpResolved
                /\ ~IsAbs(p) => rpResolved' = Append(rpResolved, RawString(p))
                /\ Len(rpResolved') <= Len(rpResolved) + 1
                /\ Take(rpResolved', Len(rpResolved)) = rpResolved]_vars

\* the mixed input of the tests: a relative pattern, an absolute path below the
\* root and one outside of it
C23_Witness ==
    /\ rpRet.returned
    /\ Len(packages) = 2
    /\ ~IsAbs(packages[1])
    /\ Dropped(packages[2])
    /\ rpRet.value = <<RawString(packages[1])>>

\* every input was dropped
C23_WitnessAllDropped ==
    /\ rpRet.returned
    /\ rpRet.value = DefaultPackages
    /\ Len(packages) = 2
    /\ \A k \in 1..2 : Dropped(packages[k])

\* the first dot after the last separator of sym, 0 when there is none
SymDot == Index(Drop(sym, LastIndex(sym, "/")), ".")

\* C21: BySymbol(result, q) is ByPackage(result, q) when q has no dot after its
\* last separator; otherwise it is the flattened diagnostics whose package is
\* the part of q before that dot and whose symbol is the remainder, in order.
C21_BySymbol ==
    split # None =>
        IF SymDot = 0
        THEN symOut = ByPackage(symResult, sym)
        ELSE symOut = SelectSeq(toDiagnostics(symResult),
                                LAMBDA d : /\ d.Package = Take(sym, LastIndex(sym, "/") + SymDot - 1)
                                           /\ d.Symbol = Drop(sym, LastIndex(sym, "/") + SymDot))

\* a package and a test name select the one failure of that test
C21_SymbolSelected ==
    /\ split # None
    /\ sym = <<"a", ".", "a">>
    /\ Len(toDiagnostics(symResult)) = 4
    /\ Len(symOut) = 1
    /\ symOut[1].Source = "test"

\* ------------------------------------------------------------------- C26
GovNames == { d.govName : d \in goplsTools }

GoplsNameOf(tool) == (CHOOSE d \in goplsTools : d.govName = tool).goplsName

ProxiedCalled == gcall.tool # ""

NothingForwarded == Len(forwarded) = gcall.before

ForwardedOnce(args) ==
    /\ Len(forwarded) = gcall.before + 1
    /\ forwarded[Len(forwarded)] = [Name |-> GoplsNameOf(gcall.tool), Arguments |-> args]

\* the raw arguments are absent, a JSON object or null
Decodes(raw) == ~raw.present \/ raw.kind \in {"object", "null"}

AllProxiedRegistered == tools # CoreTools => GovNames \subseteq tools

AbsentProxyAnswer ==
    (ProxiedCalled /\ ~gopls) =>
        /\ gret = HandlerReturn(ToolResult(<<"gopls", " is required but not installed.", "Install:",
                                             "go get -tool", "go install", "golang.org/x/tools/gopls@latest">>, TRUE), FALSE)
        /\ NothingForwarded

\* C26 as stated: every proxied tool is registered with or without the proxy;
\* without the proxy the handler returns an error result with the install
\* message of gopls and forwards nothing; with the proxy the handler forwards
\* the call upstream and returns the upstream answer unmodified.
C26_Original ==
    /\ AllProxiedRegistered
    /\ AbsentProxyAnswer
    /\ (ProxiedCalled /\ gopls) =>
          /\ ForwardedOnce(IF gcall.raw.kind = "object" THEN "object" ELSE "nil")
          /\ gret = gcall.up

\* C26 amended: as above, but with the proxy attached the call is forwarded
\* only when the raw arguments are absent or decode into a JSON object (or
\* null); any other JSON value is answered with an "invalid arguments" error
\* result and nothing is forwarded.
C26_ProxiedTools ==
    /\ AllProxiedRegistered
    /\ AbsentProxyAnswer
    /\ (ProxiedCalled /\ gopls /\ Decodes(gcall.raw)) =>
          /\ ForwardedOnce(IF gcall.raw.kind = "object" THEN "object" ELSE "nil")
          /\ gret = gcall.up
    /\ (ProxiedCalled /\ gopls /\ ~Decodes(gcall.raw)) =>
          /\ NothingForwarded
          /\ gret = HandlerReturn(ToolResult(<<"invalid arguments: ">>, TRUE), FALSE)

\* a call with an array for arguments was refused while the proxy is attached
C26_Witness ==
    /\ gopls
    /\ gcall.tool = "gov_search"
    /\ gcall.raw.kind = "array"
    /\ gret.result.isError
    /\ forwarded = <<[Name |-> "go_diagnostics", Arguments |-> "object"]>>

\* a call answered without the proxy
C26_WitnessAbsent ==
    /\ ~gopls
    /\ gcall.tool = "gov_rename_symbol"
    /\ gret.result.isError
    /\ GovNames \subseteq tools

\* ------------------------------------------------------------------- C27
RootsFailed == neg.listed.err

NoRoots == ~neg.listed.err /\ Len(neg.listed.Roots) = 0

FirstRootNotFile ==
    /\ ~neg.listed.err
    /\ Len(neg.listed.Roots) > 0
    /\ (~neg.listed.Roots[1].parses \/ neg.listed.Roots[1].Scheme # "file")

ReloadFailed == neg.loaded.err

NegotiationFailed == RootsFailed \/ NoRoots \/ FirstRootNotFile \/ ReloadFailed

\* C27: a negotiation whose roots request fails or times out, that gets no
\* roots, whose first root is not a file URI, or whose configuration reload
\* fails leaves the runner's workspace, timeout and max output and the
\* engine's config, workspace and repository root as they were; otherwise
\* all six are rebound to the first root's path and the loaded configuration.
C27_RootsNegotiation ==
    neg.called =>
        IF NegotiationFailed
        THEN hRunner = neg.runner /\ hEngine = neg.engine
        ELSE /\ hRunner.Workspace = neg.listed.Roots[1].Path
             /\ hRunner.Timeout = (IF neg.loaded.Config.RawTimeout > 0 THEN neg.loaded.Config.RawTimeout ELSE 300)
             /\ hRunner.MaxOutput = (IF neg.loaded.Config.RawMaxOutput > 0 THEN neg.loaded.Config.RawMaxOutput ELSE 1048576)
             /\ hEngine.Config = neg.loaded.Config
             /\ hEngine.Workspace = neg.listed.Roots[1].Path
             /\ hEngine.RepoRoot = neg.loaded.RepoRoot

\* a negotiation with an https first root, after one that rebound everything
C27_Witness ==
    /\ neg.called
    /\ FirstRootNotFile /\ ~ReloadFailed
    /\ neg.listed.Roots = <<URL(TRUE, "https", "/a"), URL(TRUE, "file", "/b")>>
    /\ hRunner = [Workspace |-> "/a", Timeout |-> 5, MaxOutput |-> 2]
    /\ hEngine = [Config |-> RawConfig(5, 2), Workspace |-> "/a", RepoRoot |-> "/"]

\* a negotiation that rebound the startup workspace
C27_WitnessRebound ==
    /\ neg.called
    /\ ~NegotiationFailed
    /\ neg.runner = StartupRunner
    /\ hRunner = [Workspace |-> "/b", Timeout |-> 300, MaxOutput |-> 1048576]
    /\ hEngine = [Config |-> RawConfig(0, 0), Workspace |-> "/b", RepoRoot |-> "/b"]

\* ------------------------------------------------------------------- C29
\* the ids of the cache from head to tail are the most recently accessed ones,
\* most recent first, as many as fit
RecencyOrder ==
    /\ lru.cap >= 1
    /\ lru.order = Take(accessed, Min(lru.cap, Len(accessed)))
    /\ Cached(lru) = Range(lru.order)

\* an entry leaves the cache only as the old tail, which is the least recently
\* accessed of the cached ids, and only when an insertion overflows the cache
EvictsLeastRecent ==
    \A k \in Cached(lru) \ Cached(lru') :
        /\ k = lru.order[Len(lru.order)]
        /\ k = accessed[Len(lru.order)]
        /\ Len(lru.order) = lru.cap
        /\ Cached(lru') = (Cached(lru) \ {k}) \cup {lru'.order[1]}

\* C29: over any sequence of Save and successful Load on an LRUStore of
\* capacity cap (below 1 taken as 1), the cached ids are the min(cap, distinct
\* ids accessed) most recently accessed, the list runs from most to least
\* recently accessed, and an overflow removes the least recently accessed.
C29_RecencyOrder == []RecencyOrder /\ [][EvictsLeastRecent]_vars

\* r3 loaded from disk into a full cache of two evicts r1, the older of the
\* two cached ids, after r2 was touched again
C29_Witness ==
    /\ lru.cap = 2
    /\ accessed = <<"r3", "r2", "r1">>
    /\ lru.order = <<"r3", "r2">>
    /\ sop = [op |-> "load", id |-> "r3", hit |-> FALSE]
    /\ sret.err = ""

\* ------------------------------------------------------------------- C24
\* the step is a call of gov_inspect with these arguments
InspectStep == tcall'.tool = "gov_inspect"

MissingArgument == tcall'.run_id = "" \/ tcall'.symbol = <<>>

\* the run is in the cache or on the disk when the call is made
InStore(id) == id \in Cached(lru) \/ disk.files[id] # None

\* the diagnostics of the three runs: r1 has one in package a and r2 one in
\* package b, neither names a symbol; r3 has none
Matches(id, q) == (id = "r1" /\ q = <<"a">>) \/ (id = "r2" /\ q = <<"b">>)

\* the run was returned by gov_check or gov_audit and its disk write succeeded
Written(id) == saved[id] # None /\ saved[id].ok

\* C24: gov_inspect with an empty run_id or an empty symbol returns an error
\* result and does not load from the store; with a run_id that is not in the
\* store it returns a result flagged is_error; with a run that exists and a
\* symbol that matches none of its diagnostics it returns a "No diagnostics
\* found" text that is not an error.
C24_Inspect ==
    [][InspectStep =>
          /\ MissingArgument => (tret'.isError /\ UNCHANGED storeVars)
          /\ (~MissingArgument /\ ~InStore(tcall'.run_id)) => tret'.isError
          /\ (~MissingArgument /\ InStore(tcall'.run_id) /\ ~Matches(tcall'.run_id, tcall'.symbol)) =>
                (~tret'.isError /\ tret'.text = "No diagnostics found")
          /\ (~MissingArgument /\ InStore(tcall'.run_id) /\ Matches(tcall'.run_id, tcall'.symbol)) =>
                (~tret'.isError /\ tret'.text = "inspect")]_vars

\* r1 was inspected for package b, where it has nothing
C24_Witness ==
    /\ tcall = ToolCall("gov_inspect", "r1", <<"b">>)
    /\ tret = [isError |-> FALSE, text |-> "No diagnostics found", run |-> "r1"]
    /\ sop.op = "load" /\ sop.id = "r1"

\* an empty symbol was refused after a run was saved
C24_WitnessMissing ==
    /\ tcall = ToolCall("gov_inspect", "r1", <<>>)
    /\ tret = [isError |-> TRUE, text |-> "symbol is required", run |-> ""]
    /\ Written("r1")

\* a run that was never saved was asked for
C24_WitnessUnknown ==
    /\ tcall = ToolCall("gov_inspect", "r2", <<"b">>)
    /\ tret = [isError |-> TRUE, text |-> "Failed to load run", run |-> "r2"]
    /\ saved["r2"] = None /\ saved["r1"] # None

\* ------------------------------------------------------------------- C25
\* C25: every run id that gov_check (a format failure included) or gov_audit
\* returned is saved, and whenever its disk write succeeded gov_inspect loads
\* that run, however many runs were saved or inspected since.
C25_RunStaysLoadable ==
    /\ (tcall.tool \in {"gov_check", "gov_audit"} /\ ~tret.isError) =>
          (tret.run \in RunIDs /\ saved[tret.run] # None)
    /\ (tcall.tool = "gov_inspect" /\ tcall.run_id \in RunIDs /\ tcall.symbol # <<>>
            /\ Written(tcall.run_id)) =>
          /\ ~tret.isError
          /\ sop = [op |-> "load", id |-> tcall.run_id, hit |-> sop.hit]
          /\ sret.err = ""
          /\ sret.result.ID = tcall.run_id
          /\ sret.result.Kind = saved[tcall.run_id].result.Kind

\* r1 is read back from the disk after r2 and r3 pushed it out of a cache of one
C25_Witness ==
    /\ lru.cap = 1
    /\ accessed = <<"r1", "r3", "r2">>
    /\ tcall = ToolCall("gov_inspect", "r1", <<"a">>)
    /\ sop = [op |-> "load", id |-> "r1", hit |-> FALSE]
    /\ tret = [isError |-> FALSE, text |-> "inspect", run |-> "r1"]

\* a check that stopped on a format failure returned r3 and its write succeeded
C25_WitnessFormatFailure ==
    /\ tcall.tool = "gov_check"
    /\ tret = [isError |-> FALSE, text |-> "format failure", run |-> "r3"]
    /\ Written("r3")

\* ------------------------------------------------------------------- C30
\* the entries met from e on by following next, at most n of them
RECURSIVE Chain(_, _, _)
Chain(s, e, n) == IF e = 0 \/ n = 0 THEN <<>> ELSE <<e>> \o Chain(s, s.nodes[e].next, n - 1)

\* the list from head; one entry more than there are entries shows a cycle
FromHead(s) == Chain(s, s.head, Cardinality(Entries) + 1)

CachedIds(s) == {id \in RunIDs : s.items[id] # 0}

Consistent(s) ==
    LET chain == FromHead(s)
    IN  /\ \A i, j \in 1..Len(chain) : chain[i] = chain[j] => i = j
        /\ \A i, j \in 1..Len(chain) : s.nodes[chain[i]].key = s.nodes[chain[j]].key => i = j
        /\ \A id \in CachedIds(s) :
              /\ s.nodes[s.items[id]].key = id
              /\ Cardinality({k \in 1..Len(chain) : s.nodes[chain[k]].key = id}) = 1
        /\ {s.nodes[chain[k]].key : k \in 1..Len(chain)} = CachedIds(s)
        /\ {chain[k] : k \in 1..Len(chain)} = {s.items[id] : id \in CachedIds(s)}
        /\ IF Len(chain) = 0
           THEN s.head = 0 /\ s.tail = 0
           ELSE /\ s.head = chain[1] /\ s.nodes[s.head].prev = 0
                /\ s.tail = chain[Len(chain)] /\ s.nodes[s.tail].next = 0
        /\ \A k \in 1..(Len(chain) - 1) : s.nodes[chain[k + 1]].prev = chain[k]
        /\ Len(chain) <= s.cap

\* both goroutines have returned from Loads of one id that ran together and
\* that both missed the cache
TwoLoadsRaced ==
    /\ \A g \in Goroutines : gpc[g] = "done" /\ gop[g].op = "load" /\ gop[g].raced /\ gop[g].missed
    /\ gop["g1"].id = gop["g2"].id

\* C30: under any interleaving of concurrent Save and Load calls, whenever
\* the mutex is free each cached id is in exactly one list node, the map's
\* keys are the nodes reachable from head, head and tail are the ends of the
\* list and there are at most cap entries; two concurrent Loads of one
\* missing id leave exactly one entry for it, at the front.
C30_ConsistentWhenUnlocked ==
    /\ mu = "" => Consistent(cl)
    /\ TwoLoadsRaced =>
          /\ cl.items[gop["g1"].id] # 0
          /\ cl.head = cl.items[gop["g1"].id]
          /\ Cardinality({e \in Entries : cl.nodes[e].used /\ cl.nodes[e].key = gop["g1"].id}) = 1

\* g1 inserted r1 and g2, which had also missed it, moved it to the front of
\* a cache of two that holds r2 as well
C30_Witness ==
    /\ TwoLoadsRaced
    /\ gop["g1"].id = "r1"
    /\ gop["g1"].promoted = "inserted" /\ gop["g2"].promoted = "moved"
    /\ cl.cap = 2
    /\ CachedIds(cl) = {"r1", "r2"}
    /\ mu = ""

\* while the mutex is held the cache can hold one entry more than cap
C30_WitnessLocked ==
    /\ mu = "g2"
    /\ gpc["g2"] = "evict"
    /\ Len(FromHead(cl)) = cl.cap + 1
    /\ gpc["g1"] = "lock"

\* ------------------------------------------------------------------- C40
\* Run was given a command and a cwd, and resolveDir has answered
DirResolved == rpc # "idle" /\ argv # <<>> /\ cwd # EmptyString

\* C40: resolveDir accepts a non-empty cwd exactly when its normalized path
\* is the workspace root or below it, whatever its components are called, and
\* an accepted cwd is the working directory of the child.
C40_AcceptsIffInside ==
    DirResolved =>
        /\ (cmd # None <=> Inside(runner.Workspace, Resolved(runner.Workspace, cwd)))
        /\ (cmd # None => cmd.Dir = Resolved(runner.Workspace, cwd))

\* the directory "..a" of the workspace /a was refused as outside of it
C40_InsideRefused ==
    /\ DirResolved
    /\ runner.Workspace = Path(TRUE, <<<<"a">>>>)
    /\ cwd = Path(FALSE, <<<<".", ".", "a">>>>)
    /\ Inside(runner.Workspace, Resolved(runner.Workspace, cwd))
    /\ rpc = "returned" /\ runRet.err = "outside workspace" /\ cmd = None

\* ------------------------------------------------------------------- C32
\* C32: a Save or a Load of the LRUStore that returns an error leaves the
\* cache as it was: the same ids, the same results, the same order.
C32_ErrorLeavesCache ==
    [][(sret' # None /\ sret'.err # "") => lru' = lru]_vars

\* a Save whose disk write failed has put its record at the head of a cache
\* that was empty, and the disk holds nothing
C32_FailedSaveCached ==
    /\ sop # None /\ sop.op = "save"
    /\ sret.err = "writing result"
    /\ lru.order = <<sop.id>>
    /\ lru.items[sop.id] = saved[sop.id].result
    /\ \A id \in RunIDs : disk.files[id] = None
    /\ accessed = <<sop.id>>

\* ------------------------------------------------------------------- C31
AllReturned == \A g \in Goroutines : gpc[g] = "done"

CachedResult(id) == cl.nodes[cl.items[id]].result

\* C31: once all concurrent operations on an id have completed, the result
\* the cache holds of it is the result the backing store holds: a Load that
\* missed does not put the older result it read over a newer one cached by a
\* concurrent Save, and two concurrent Saves do not leave cache and backing
\* store apart.
C31_CacheMatchesBacking ==
    AllReturned =>
        \A id \in RunIDs : (cl.items[id] # 0 /\ backing[id] # 0) => CachedResult(id) = backing[id]

\* a Load of r1 read result 1 from the backing store and, after a Save had
\* cached and stored result 2, wrote result 1 over it in the cache
C31_StaleLoadKept ==
    /\ AllReturned
    /\ gop["g1"].op = "load" /\ gop["g1"].id = "r1" /\ gop["g1"].result = 1
    /\ gop["g1"].promoted = "moved"
    /\ gop["g2"] = NoCall
    /\ cl.items["r1"] # 0 /\ CachedResult("r1") = 1
    /\ backing["r1"] = 2

\* ---- C33: the rebind of engine, runner and config
Rebinds == {i \in 1..Len(hlog) : hlog[i].ev = "rebind"}

ToolReads == {i \in 1..Len(hlog) : hlog[i].ev \in HandlerTools}

\* C33: the handler's engine, runner and config are rebound at most once per
\* server, and no rebind follows a tool call, under either transport and
\* with several client sessions
C33_RebindOnceBeforeTools ==
    /\ Cardinality(Rebinds) <= 1
    /\ \A i \in Rebinds : \A j \in ToolReads : i < j

\* a second HTTP session's initialisation rebinds a handler the first
\* session has been rebinding and calling tools on
C33_ReboundAfterCall ==
    /\ transport = "http"
    /\ Len(hlog) = 3
    /\ hlog[1] = [ev |-> "rebind", session |-> "s1"]
    /\ hlog[2] = [ev |-> "gov_check", session |-> "s1"]
    /\ hlog[3] = [ev |-> "rebind", session |-> "s2"]
    /\ hEngine.Workspace # neg.engine.Workspace

\* ---- C34: the order of the test step's records
\* the lines of a stream that are fail events of a named test
FailLines(data) == {i \in 1..Len(data) : data[i].valid /\ data[i].Action = "fail" /\ data[i].Test # <<>>}

\* the records the test step appends for a summary with status FAIL
TestRecords(summary) ==
    CheckTestRecords(NewRunResult(RunID, "check"),
                     StepRun(NoErr, summary, {}, Env(TRUE, TRUE, 1, 0, TRUE))).TestFailures

\* record j is of the test whose first fail event is at line i
RecordOf(data, records, j, i) ==
    /\ records[j].Package = data[i].Package
    /\ records[j].Test = data[i].Test
    /\ \A h \in FailLines(data) : (data[h].Package = data[i].Package /\ data[h].Test = data[i].Test) => i <= h

\* C34: the test_failures records the test step appends are in the order in
\* which the fail events of their tests appear in the test-driver stream
C34_RecordsInStreamOrder ==
    (tsum # None /\ tsum.Status = "FAIL") =>
        \A j1, j2 \in 1..Len(TestRecords(tsum)) : \A i1, i2 \in FailLines(tdata) :
            (/\ j1 < j2
             /\ RecordOf(tdata, TestRecords(tsum), j1, i1)
             /\ RecordOf(tdata, TestRecords(tsum), j2, i2)) => i1 < i2

\* TA fails before TB in the stream, TB's record comes first
C34_LaterFailureFirst ==
    /\ tdata = <<TestEvent("fail", <<"p">>, <<"TA">>, <<>>, <<>>),
                 TestEvent("fail", <<"p">>, <<"TB">>, <<>>, <<>>)>>
    /\ tsum # None
    /\ Len(TestRecords(tsum)) = 2
    /\ TestRecords(tsum)[1].Test = <<"TB">>
    /\ TestRecords(tsum)[2].Test = <<"TA">>

\* ---- C35: status and counts of a test summary
Named(data, action) ==
    {i \in 1..Len(data) : data[i].valid /\ data[i].Action = action /\ data[i].Test # <<>>}

HasEvent(data, action) == \E i \in 1..Len(data) : data[i].valid /\ data[i].Action = action

\* C35: the status is FAIL exactly when the stream holds a fail or a
\* build-fail event, the counts are those of the pass, fail and skip events
\* that name a test, and Total is their sum
C35_StatusAndCounts ==
    tsum # None =>
        /\ tsum.Status = "FAIL" <=> (HasEvent(tdata, "fail") \/ HasEvent(tdata, "build-fail"))
        /\ tsum.Passed = Cardinality(Named(tdata, "pass"))
        /\ tsum.Failed = Cardinality(Named(tdata, "fail"))
        /\ tsum.Skipped = Cardinality(Named(tdata, "skip"))
        /\ tsum.Total = tsum.Passed + tsum.Failed + tsum.Skipped

\* a fail event that names neither a test nor a package leaves the status PASS
C35_FailEventPasses ==
    /\ tdata = <<TestEvent("fail", <<>>, <<>>, <<>>, <<>>)>>
    /\ tsum # None
    /\ tsum.Status = "PASS"

\* ---- C36: the RunResult of one invocation only grows
RecordLists ==
    {"FormatIssues", "BuildErrors", "TestFailures", "LintIssues", "StaticIssues",
     "Coverage", "Complexity", "DeadFuncs", "Duplicates", "Vulns"}

KeptAtFront(before, after) ==
    Len(before) <= Len(after) /\ SubSeq(after, 1, Len(before)) = before

\* C36: no step of an Audit or Check invocation removes or replaces records
\* an earlier step of the same invocation wrote, whatever the step list
C36_OnlyAppends ==
    [][pc = "loop" => \A f \in RecordLists : KeptAtFront(rr[f], rr'[f])]_vars

\* coverage is named twice: the first run wrote one entry, the second found
\* none, and the returned RunResult has no coverage entry
C36_SecondRunReplaced ==
    /\ op = "audit"
    /\ pc = "done"
    /\ AuditSteps(config) = <<"coverage", "coverage">>
    /\ outcomes[1].findings = 1
    /\ results[1].Status = "done"
    /\ results[2].Status = "done"
    /\ outcomes[2].findings = 0
    /\ ret.RunResult.Coverage = <<>>

\* ---- C37: which record lists a finished Check can have filled
StepLists == {"TestFailures", "BuildErrors", "LintIssues", "StaticIssues"}

\* the lists a check step writes to
ListsOf(step) ==
    CASE step = "test" -> {"TestFailures", "BuildErrors"}
      [] step = "lint" -> {"LintIssues"}
      [] step = "staticcheck" -> {"StaticIssues"}
      [] OTHER -> {}

\* C37: a Check that returns failed_index = -1 has written no test, build,
\* lint or static record, and one that returns failed_index = i >= 0 has
\* written to no list but those of step i
C37_OnlyFailedStepWrites ==
    CheckDone =>
        /\ ret.FailedIdx = -1 => \A f \in StepLists : ret.RunResult[f] = <<>>
        /\ ret.FailedIdx >= 0 =>
              \A f \in StepLists \ ListsOf(CheckSteps(config)[ret.FailedIdx + 1]) :
                  ret.RunResult[f] = <<>>

\* test passed, lint failed: the lint issues are the only records
C37_Witness ==
    /\ CheckDone
    /\ CheckSteps(config) = <<"test", "lint">>
    /\ ret.FailedIdx = 1
    /\ ret.Steps[1].Status = "pass"
    /\ ret.RunResult.LintIssues # <<>>
    /\ ret.RunResult.TestFailures = <<>>

\* every step passed and the four lists are empty
C37_WitnessAllPass ==
    /\ CheckDone
    /\ CheckSteps(config) = <<"test", "lint">>
    /\ ret.FailedIdx = -1
    /\ ret.Steps[2].Status = "pass"
    /\ \A f \in StepLists : ret.RunResult[f] = <<>>

\* ---- C38: the symbols a failed Check names
\* C38: every entry of FormatFailureSymbols of a RunResult that Check
\* returns names a symbol or package for which BySymbol, on the same
\* RunResult, returns at least one diagnostic
C38_SymbolsResolve ==
    CheckDone =>
        \A e \in FormatFailureSymbols(ret.RunResult) : BySymbolOf(ret.RunResult, e.sym) # <<>>

\* lint failed on a/x.go: the entry names package a, which holds no diagnostic
C38_LintPackageEmpty ==
    /\ CheckDone
    /\ ret.FailedIdx >= 0
    /\ Len(ret.RunResult.LintIssues) = 1
    /\ ret.RunResult.LintIssues[1].File = <<"a", "/", "x.go">>
    /\ [sym |-> <<"a">>, what |-> "lint issues", n |-> 1] \in FormatFailureSymbols(ret.RunResult)
    /\ BySymbolOf(ret.RunResult, <<"a">>) = <<>>

\* ---- C39: reaching every record through inspect
MaxQuery == 2

\* the symbol arguments tried for a run: the package of each diagnostic, the
\* package and symbol joined by a dot, and every string of up to MaxQuery
\* tokens over the run's own tokens, "." and "/"; never the empty one
RunTokens(r) ==
    {".", "/"} \cup UNION { Range(toDiagnostics(r)[k].Package) \cup Range(toDiagnostics(r)[k].Symbol)
                           : k \in DOMAIN toDiagnostics(r) }

SymbolArguments(r) ==
    (SeqsUpTo(RunTokens(r), MaxQuery)
     \cup { toDiagnostics(r)[k].Package : k \in DOMAIN toDiagnostics(r) }
     \cup { toDiagnostics(r)[k].Package \o <<".">> \o toDiagnostics(r)[k].Symbol : k \in DOMAIN toDiagnostics(r) })
    \ {<<>>}

\* inspect answers with BySymbol of the stored run
Reaches(r, q, d) == \E k \in DOMAIN BySymbolOf(r, q) : BySymbolOf(r, q)[k] = d

Unreachable(r, d) == \A q \in SymbolArguments(r) : ~Reaches(r, q, d)

\* C39: every flattened diagnostic of a run that Check or Audit returns is
\* returned by inspect for some non-empty symbol argument
C39_EveryRecordReachable ==
    pc = "done" =>
        \A k \in DOMAIN toDiagnostics(ret.RunResult) :
            ~Unreachable(ret.RunResult, toDiagnostics(ret.RunResult)[k])

\* a staticcheck issue in a file of the root directory has package ".", which
\* no symbol argument selects
C39_RootPackageUnreachable ==
    /\ CheckDone
    /\ Len(ret.RunResult.StaticIssues) = 1
    /\ ret.RunResult.StaticIssues[1].Package = <<".">>
    /\ Unreachable(ret.RunResult, toDiagnostics(ret.RunResult)[1])

\* a lint issue has no package and is returned for the symbol argument "."
C39_LintReachedByDot ==
    /\ CheckDone
    /\ Len(ret.RunResult.LintIssues) = 1
    /\ Reaches(ret.RunResult, <<".">>, toDiagnostics(ret.RunResult)[1])

====
